---------------------------- MODULE Spec2Model ----------------------------
(***************************************************************************)
(* A model of the proxy pool of mywebdriver: the Mullvad proxy manager     *)
(* (registry fetch and parse, threaded validation, snapshot cache, get)    *)
(* and the rotating driver session.                                        *)
(*                                                                         *)
(* Time is counted in ticks of HoursPerTick hours.  Python dictionaries    *)
(* are records in which a missing key holds the value Absent.  Text is     *)
(* kept as a sequence of tokens: a word, a single space " ", a wide gap    *)
(* "  " (a run of two or more spaces) or the two-character token ", ".     *)
(*                                                                         *)
(* Calls are modelled with the arguments bound as the callee uses them:    *)
(* the options object that check_proxy builds is the options object the    *)
(* session is constructed from.  What a third-party call does (the HTTP    *)
(* request, the launch of Chrome, a navigation) is a choice among its      *)
(* outcomes.                                                               *)
(***************************************************************************)
EXTENDS Integers, Sequences, FiniteSets, TLC

(***************************************************************************)
(* Bounds of the model.                                                    *)
(***************************************************************************)
MaxProxies == 2      \* data lines of the largest registry
MaxWorkers == 2      \* largest max_workers of the thread pool
MaxClock   == 3      \* last tick of the clock

(***************************************************************************)
(* Program constants.                                                      *)
(***************************************************************************)
HoursPerTick == 12   \* one tick of the clock, in hours
TicksPerDay  == 2    \* the cache file name changes every 24 hours
DefaultMaxAge == 24  \* max_cache_age_hours of get_proxy_list
MinParts == 4        \* _parse_proxy_line: fewest fields of a data line
MaxParts == 20       \* _parse_proxy_line: fields of a data line stay below

Absent == "<absent>"   \* a key a dict does not hold
None   == "<None>"
NoneSeq == <<>>        \* None, where the other values are tuples

-----------------------------------------------------------------------------
(***************************************************************************)
(* Text: str.strip, re.split(r" {2,}"), str.replace, str.startswith.       *)
(***************************************************************************)
IsGap(tok) == tok \in {" ", "  "}

RECURSIVE lstrip(_)
lstrip(line) ==
  IF line = <<>> THEN <<>>
  ELSE IF IsGap(Head(line)) THEN lstrip(Tail(line)) ELSE line

RECURSIVE rstrip(_)
rstrip(line) ==
  IF line = <<>> THEN <<>>
  ELSE IF IsGap(line[Len(line)]) THEN rstrip(SubSeq(line, 1, Len(line) - 1))
       ELSE line

\* ", " ends with a space: str.strip removes that space and leaves ",".
strip(line) ==
  LET s == rstrip(lstrip(line))
  IN  IF s # <<>> /\ s[Len(s)] = ", "
      THEN SubSeq(s, 1, Len(s) - 1) \o <<",">> ELSE s

\* re.split(r" {2,}", s): the fields between the wide gaps, each a token list.
RECURSIVE re_split(_, _)
re_split(line, cur) ==
  IF line = <<>> THEN <<cur>>
  ELSE IF Head(line) = "  " THEN <<cur>> \o re_split(Tail(line), <<>>)
       ELSE re_split(Tail(line), Append(cur, Head(line)))

\* s.replace(old, "_") for a one-token old.
RECURSIVE replace(_, _)
replace(field, old) ==
  IF field = <<>> THEN <<>>
  ELSE <<IF Head(field) = old THEN "_" ELSE Head(field)>>
         \o replace(Tail(field), old)

\* The string a token list spells.
RECURSIVE text(_)
text(field) == IF field = <<>> THEN "" ELSE Head(field) \o text(Tail(field))

startswith(line, prefix) ==
  /\ Len(line) >= Len(prefix)
  /\ SubSeq(line, 1, Len(prefix)) = prefix

\* Mutant of _parse_proxy_line: a line of three fields is accepted.
_parse_proxy_line_Three(line) ==
  LET split == re_split(strip(line), <<>>)
      parts == SelectSeq(split, LAMBDA p : p # <<>>)
      num_parts == Len(parts)
  IN  IF num_parts < MaxParts /\ num_parts >= MinParts - 1
      THEN <<text(replace(parts[2], " ")),
             text(replace(replace(parts[3], ", "), " ")),
             text(parts[IF num_parts >= MinParts THEN MinParts ELSE num_parts]),
             text(parts[num_parts])>>
      ELSE NoneSeq

\* Mutant of _parse_proxy_line: the hostname is read at a fixed place.
_parse_proxy_line_FixedHost(line) ==
  LET split == re_split(strip(line), <<>>)
      parts == SelectSeq(split, LAMBDA p : p # <<>>)
      num_parts == Len(parts)
  IN  IF num_parts < MaxParts /\ num_parts >= MinParts
      THEN <<text(replace(parts[2], " ")),
             text(replace(replace(parts[3], ", "), " ")),
             text(parts[4]),
             text(parts[IF num_parts > MinParts THEN MinParts + 1
                        ELSE num_parts])>>
      ELSE NoneSeq

\* _parse_proxy_line: NoneSeq, or <<country, city, socks5_address, hostname>>.
_parse_proxy_line(line) ==
  LET split == re_split(strip(line), <<>>)
      parts == SelectSeq(split, LAMBDA p : p # <<>>)
      num_parts == Len(parts)
  IN  IF num_parts < MaxParts /\ num_parts >= MinParts
      THEN <<text(replace(parts[2], " ")),
             text(replace(replace(parts[3], ", "), " ")),
             text(parts[4]),
             text(parts[num_parts])>>
      ELSE NoneSeq

\* Mutant of ProxyDict: proxy_url is built from the hostname.
ProxyDict_HostUrl(parsed) ==
  [country |-> parsed[1], city |-> parsed[2], socks5 |-> parsed[3],
   hostname |-> parsed[4], proxy_url |-> "socks5://" \o parsed[4] \o ":1080",
   valid |-> Absent, checked_at |-> NoneSeq, error_code |-> Absent,
   error_reason |-> Absent, error |-> Absent]

\* The record fetch_proxy_list appends for one parsed line.  valid is Absent,
\* "True" or "False"; checked_at is NoneSeq or <<tick>>.
ProxyDict(parsed) ==
  [country |-> parsed[1], city |-> parsed[2], socks5 |-> parsed[3],
   hostname |-> parsed[4], proxy_url |-> "socks5://" \o parsed[3] \o ":1080",
   valid |-> Absent, checked_at |-> NoneSeq, error_code |-> Absent,
   error_reason |-> Absent, error |-> Absent]

\* Mutant of IsDataLine: the column header is taken for a data line.
IsDataLine_WithColumns(line) ==
  /\ strip(line) # <<>>
  /\ ~startswith(line, <<"Date:">>)
  /\ ~startswith(line, <<"Total">>)

IsDataLine(line) ==
  /\ strip(line) # <<>>
  /\ ~startswith(line, <<"Date:">>)
  /\ ~startswith(line, <<"Total">>)
  /\ ~startswith(line, <<" ", "flag">>)

RECURSIVE ParseLines(_)
ParseLines(lines) ==
  IF lines = <<>> THEN <<>>
  ELSE LET r == _parse_proxy_line(Head(lines))
       IN  (IF r # NoneSeq THEN <<ProxyDict(r)>> ELSE <<>>)
             \o ParseLines(Tail(lines))

\* fetch_proxy_list on the outcome of requests.get (ok: the request and
\* raise_for_status passed): how it ends and the list it returns.  Every
\* exception of the request is caught and turned into [].
fetch_proxy_list(response) ==
  IF response.ok
  THEN [kind |-> "list",
        value |-> ParseLines(SelectSeq(response.lines, IsDataLine))]
  ELSE [kind |-> "list", value |-> <<>>]


-----------------------------------------------------------------------------
(***************************************************************************)
(* The registry texts the HTTP request can return: three header lines, a   *)
(* line of two fields, and k well-formed lines.  In a token list a run of  *)
(* spaces is one token and ", " is never next to a gap.                    *)
(***************************************************************************)
HeaderLines ==
  << <<"Date:", " ", "2025-04-04">>,
     <<"Total", " ", "active", " ", "proxies:", " ", "479">>,
     <<" ", "flag", "  ", "country", "  ", "city", "  ", "socks5">> >>

MalformedLine == <<" ", "AL", "  ", "Albania">>

GoodLine(i) ==
  <<" ", "US", "  ", "United", " ", "States", "  ",
    "Salt", " ", "Lake", ", ", "UT", "  ",
    "10.124.0." \o ToString(i), "  ", "31.171.153.66", "  ",
    "us-slc-wg-00" \o ToString(i)>>

Registry(k) ==
  HeaderLines \o <<MalformedLine>> \o [i \in 1..k |-> GoodLine(i)]

\* What requests.get followed by raise_for_status can give.
Responses ==
  {[ok |-> FALSE, lines |-> <<>>]}
    \cup {[ok |-> TRUE, lines |-> Registry(k)] : k \in 0..MaxProxies}

-----------------------------------------------------------------------------
(***************************************************************************)
(* The snapshot cache.  A directory is a function from the day of the file *)
(* name to the file; a file that does not exist has mtime -1.              *)
(***************************************************************************)
Days == 0..(MaxClock \div TicksPerDay)
NoFile == [mtime |-> -1, content |-> <<>>]
EmptyDir == [d \in Days |-> NoFile]

\* datetime.now().strftime("%Y_%m_%d")
DayOf(t) == t \div TicksPerDay

json_files(dir) == {d \in DOMAIN dir : dir[d].mtime >= 0}

\* _get_latest_proxy_file: -1 for None, else the file of greatest mtime.
_get_latest_proxy_file(dir) ==
  IF json_files(dir) = {} THEN -1
  ELSE CHOOSE d \in json_files(dir) :
         \A e \in json_files(dir) : dir[e].mtime <= dir[d].mtime

\* Mutant of _get_file_age_hours: the difference is not turned into hours.
_get_file_age_hours_Raw(dir, d, t) == t - dir[d].mtime

_get_file_age_hours(dir, d, t) == (t - dir[d].mtime) * HoursPerTick

\* Mutant of is_cache_fresh: a file of exactly max_age_hours is stale.
is_cache_fresh_Strict(dir, t, max_age_hours) ==
  LET latest_file == _get_latest_proxy_file(dir)
  IN  IF latest_file = -1 THEN <<FALSE, -1>>
      ELSE <<_get_file_age_hours(dir, latest_file, t) < max_age_hours,
             latest_file>>

\* is_cache_fresh: <<is_fresh, latest_file>>
is_cache_fresh(dir, t, max_age_hours) ==
  LET latest_file == _get_latest_proxy_file(dir)
  IN  IF latest_file = -1 THEN <<FALSE, -1>>
      ELSE <<_get_file_age_hours(dir, latest_file, t) <= max_age_hours,
             latest_file>>

(***************************************************************************)
(* json.dump and json.load.  The text of a file is a sequence of tokens:   *)
(* the punctuation of JSON, the literals true and false, a number, or the  *)
(* characters of a string between two quote tokens.  A dict is written     *)
(* with the keys it holds; checked_at, the text of a time, is written as   *)
(* the numeral of its tick.                                                *)
(***************************************************************************)
Keys ==
  <<"country", "city", "socks5", "hostname", "proxy_url", "valid",
    "checked_at", "error_code", "error_reason", "error">>

\* A dict with no key.
EmptyDict ==
  [country |-> Absent, city |-> Absent, socks5 |-> Absent, hostname |-> Absent,
   proxy_url |-> Absent, valid |-> Absent, checked_at |-> NoneSeq,
   error_code |-> Absent, error_reason |-> Absent, error |-> Absent]

Holds(proxy, key) ==
  IF key = "checked_at" THEN proxy[key] # NoneSeq ELSE proxy[key] # Absent

\* The text of one value: a bool is a literal, error_code a number, every
\* other value a string.
json_value(key, v) ==
  IF key = "valid" THEN <<IF v = "True" THEN "true" ELSE "false">>
  ELSE IF key = "error_code" THEN <<v>>
  ELSE IF key = "checked_at" THEN <<"\"", ToString(v[1]), "\"">>
  ELSE <<"\"", v, "\"">>

RECURSIVE json_members(_, _, _)
json_members(proxy, k, first) ==
  IF k > Len(Keys) THEN <<>>
  ELSE IF Holds(proxy, Keys[k])
       THEN (IF first THEN <<>> ELSE <<",">>)
              \o <<"\"", Keys[k], "\"", ":">>
              \o json_value(Keys[k], proxy[Keys[k]])
              \o json_members(proxy, k + 1, FALSE)
       ELSE json_members(proxy, k + 1, first)

json_object(proxy) == <<"{">> \o json_members(proxy, 1, TRUE) \o <<"}">>

RECURSIVE json_elements(_)
json_elements(list) ==
  IF list = <<>> THEN <<>>
  ELSE json_object(Head(list))
         \o (IF Tail(list) = <<>> THEN <<>> ELSE <<",">>)
         \o json_elements(Tail(list))

\* json.dump(proxy_list, f, indent=2)
json_dump(list) == <<"[">> \o json_elements(list) \o <<"]">>

Punctuation == {"[", "]", "{", "}", ",", ":", "\""}
ParseError == [ok |-> FALSE, value |-> EmptyDict, rest |-> <<>>]
after(toks, n) == SubSeq(toks, n + 1, Len(toks))

\* The value a text stands for under its key.
FromText(key, s) ==
  IF key = "checked_at"
  THEN IF \E t \in 0..MaxClock : ToString(t) = s
       THEN <<CHOOSE t \in 0..MaxClock : ToString(t) = s>>
       ELSE NoneSeq
  ELSE s

parse_value(key, toks) ==
  IF toks = <<>> THEN [ok |-> FALSE, value |-> Absent, rest |-> <<>>]
  ELSE IF Head(toks) = "\""
       THEN IF Len(toks) >= 3 /\ toks[3] = "\""
            THEN [ok |-> TRUE, value |-> FromText(key, toks[2]),
                  rest |-> after(toks, 3)]
            ELSE [ok |-> FALSE, value |-> Absent, rest |-> <<>>]
       ELSE IF Head(toks) \in Punctuation
            THEN [ok |-> FALSE, value |-> Absent, rest |-> <<>>]
            ELSE [ok |-> TRUE,
                  value |-> IF Head(toks) = "true" THEN "True"
                            ELSE IF Head(toks) = "false" THEN "False"
                            ELSE Head(toks),
                  rest |-> Tail(toks)]

\* The members of an object, from the first token of a member on.
RECURSIVE parse_members(_, _)
parse_members(toks, dict) ==
  IF /\ Len(toks) >= 4
     /\ toks[1] = "\"" /\ toks[3] = "\"" /\ toks[4] = ":"
     /\ toks[2] \in DOMAIN dict
  THEN LET v == parse_value(toks[2], after(toks, 4))
           d == [dict EXCEPT ![toks[2]] = v.value]
       IN  IF ~v.ok \/ v.rest = <<>> THEN ParseError
           ELSE IF Head(v.rest) = "," THEN parse_members(Tail(v.rest), d)
           ELSE IF Head(v.rest) = "}"
                THEN [ok |-> TRUE, value |-> d, rest |-> Tail(v.rest)]
                ELSE ParseError
  ELSE ParseError

parse_object(toks) ==
  IF Len(toks) >= 2 /\ toks[1] = "{"
  THEN IF toks[2] = "}"
       THEN [ok |-> TRUE, value |-> EmptyDict, rest |-> after(toks, 2)]
       ELSE parse_members(Tail(toks), EmptyDict)
  ELSE ParseError

\* The elements of an array, from the first token of an element on.
RECURSIVE parse_elements(_, _)
parse_elements(toks, list) ==
  LET o == parse_object(toks)
  IN  IF ~o.ok \/ o.rest = <<>> THEN [ok |-> FALSE, value |-> <<>>]
      ELSE IF Head(o.rest) = ","
           THEN parse_elements(Tail(o.rest), Append(list, o.value))
           ELSE IF o.rest = <<"]">>
                THEN [ok |-> TRUE, value |-> Append(list, o.value)]
                ELSE [ok |-> FALSE, value |-> <<>>]

\* json.load(f): the list read, or raised when the text is not a JSON array
\* of objects.
json_load(toks) ==
  IF toks = <<"[", "]">> THEN [raised |-> FALSE, value |-> <<>>]
  ELSE IF toks # <<>> /\ Head(toks) = "["
       THEN LET r == parse_elements(Tail(toks), <<>>)
            IN  [raised |-> ~r.ok, value |-> r.value]
       ELSE [raised |-> TRUE, value |-> <<>>]

\* load_proxy_list_from_file: [] when the file cannot be read.
load_proxy_list_from_file(dir, d) ==
  LET r == json_load(dir[d].content)
  IN  IF r.raised THEN <<>> ELSE r.value

\* Mutant of load_latest_proxy_list: the file of least mtime is read.
load_latest_proxy_list_Oldest(dir) ==
  IF json_files(dir) = {} THEN <<>>
  ELSE LET latest_file ==
             CHOOSE d \in json_files(dir) :
               \A e \in json_files(dir) : dir[e].mtime >= dir[d].mtime
           r == json_load(dir[latest_file].content)
       IN  IF r.raised THEN <<>> ELSE r.value

\* load_latest_proxy_list: [] when there is no *.json file or the newest
\* cannot be read.
load_latest_proxy_list(dir) ==
  IF json_files(dir) = {} THEN <<>>
  ELSE LET latest_file ==
             CHOOSE d \in json_files(dir) :
               \A e \in json_files(dir) : dir[e].mtime <= dir[d].mtime
           r == json_load(dir[latest_file].content)
       IN  IF r.raised THEN <<>> ELSE r.value

\* Mutant of save_proxy_list: the write clears the files of other days.
save_proxy_list_Wipe(dir, list, t) ==
  [d \in DOMAIN dir |->
     IF d = DayOf(t) THEN [mtime |-> t, content |-> json_dump(list)]
     ELSE NoFile]

\* Mutant of save_proxy_list: a file of the same day is added to.
save_proxy_list_Merge(dir, list, t) ==
  [dir EXCEPT ![DayOf(t)] =
     [mtime |-> t,
      content |-> json_dump((IF dir[DayOf(t)].mtime >= 0
                             THEN load_proxy_list_from_file(dir, DayOf(t))
                             ELSE <<>>) \o list)]]

\* Mutant of save_proxy_list: an empty list is not written.
save_proxy_list_SkipEmpty(dir, list, t) ==
  IF list = <<>> THEN dir
  ELSE [dir EXCEPT ![DayOf(t)] = [mtime |-> t, content |-> json_dump(list)]]

\* save_proxy_list: the directory after the write at tick t.
save_proxy_list(dir, list, t) ==
  [dir EXCEPT ![DayOf(t)] = [mtime |-> t, content |-> json_dump(list)]]

\* Mutant of ValidOnes: an unchecked proxy passes the filter.
ValidOnes_NotFalse(list) == SelectSeq(list, LAMBDA p : p.valid # "False")

\* [p for p in proxy_list if p.get("valid", False)]
ValidOnes(list) == SelectSeq(list, LAMBDA p : p.valid = "True")

-----------------------------------------------------------------------------
(***************************************************************************)
(* ChromeOptionsBuilder.add_proxy_and_build: the arguments of a deep copy  *)
(* of the builder's options, or the ValueError it raises.                  *)
(***************************************************************************)
BaseArguments == <<"--headless">>

add_proxy_and_build(arguments, proxy) ==
  IF proxy.proxy_url \in {Absent, ""}
  THEN [raised |-> TRUE, arguments |-> <<>>]
  ELSE [raised |-> FALSE,
        arguments |->
          arguments \o <<"--proxy-server=" \o proxy.proxy_url>>
            \o (IF proxy.socks5 \in {Absent, ""} THEN <<>>
                ELSE <<"--host-resolver-rules=MAP * ~NOTFOUND , EXCLUDE "
                         \o proxy.socks5>>)]

(***************************************************************************)
(* What driver.go_get_json can return: get_json_content turns every error  *)
(* after the navigation into None.                                         *)
(***************************************************************************)
NoError == [code |-> Absent, reason |-> Absent]
PageNone == [kind |-> "none", tournament |-> FALSE, error |-> FALSE, err |-> NoError]
PageData ==
  { PageNone,
    [kind |-> "list", tournament |-> FALSE, error |-> FALSE, err |-> NoError],
    [kind |-> "dict", tournament |-> FALSE, error |-> FALSE, err |-> NoError],
    [kind |-> "dict", tournament |-> TRUE, error |-> FALSE, err |-> NoError],
    [kind |-> "dict", tournament |-> FALSE, error |-> TRUE,
     err |-> [code |-> "403", reason |-> "Forbidden"]] }

\* check_proxy after driver.close(): the record and the value returned.
Classify(proxy, page_data, t) ==
  LET stamped == [proxy EXCEPT !.checked_at = <<t>>]
  IN  IF page_data.kind = "dict" /\ (page_data.tournament \/ page_data.error)
      THEN IF page_data.tournament
           THEN [proxy |-> [stamped EXCEPT !.valid = "True"], result |-> TRUE]
           ELSE [proxy |-> [stamped EXCEPT !.error_code = page_data.err.code,
                                           !.error_reason = page_data.err.reason],
                 result |-> FALSE]
      ELSE [proxy |-> stamped, result |-> FALSE]

\* Mutant of Failed: the handler records the error text and leaves valid.
Failed_KeepValid(proxy, message) == [proxy EXCEPT !.error = message]

\* Mutant of Failed: the handler does not record the error text.
Failed_NoError(proxy, message) == [proxy EXCEPT !.valid = "False"]

\* The two handlers of check_proxy: what they write to the record.
Failed(proxy, message) == [proxy EXCEPT !.valid = "False", !.error = message]

-----------------------------------------------------------------------------
(***************************************************************************)
(* State of the proxy manager and of one call of get_proxy_list.           *)
(***************************************************************************)
VARIABLES
  now,               \* the clock, in ticks
  files,             \* data/proxies/*.json
  raw_files,         \* data/proxies/raw/*.json
  max_workers,       \* MullvadProxyManager.max_workers
  builder,           \* arguments of the options of the shared optionsbuilder
  pc,                \* where the calling thread is
  call,              \* arguments of the running get_proxy_list
  calls,             \* calls of get_proxy_list made so far
  proxy_list,        \* fetch_and_process_proxies: proxy_list
  submitted,         \* check_all_proxies_threaded: futures created so far
  work_queue,        \* the executor's queue of submitted tasks
  futures,           \* per list index: state, result and exception
  workers,           \* per pool thread: position in check_proxy and its task
  processed,         \* the futures as_completed has yielded
  num_good_proxies,  \* check_all_proxies_threaded: num_good_proxies
  checks,            \* per list index: calls of check_proxy so far
  chrome,            \* per list index: the Chrome its check launched
  raised,            \* per list index: the exception its check caught
  pages,             \* per list index: what go_get_json returned to its check
  oplog,             \* operations of the running get_proxy_list, in order
  http,              \* the last response of the registry request
  fetched,           \* how the last fetch_proxy_list ended
  ret,               \* what the last get_proxy_list returned
  mgr                \* outcome of ManagerWebdriver.__init__

managerVars ==
  <<now, files, raw_files, max_workers, builder, pc, call, calls,
    proxy_list, submitted, work_queue, futures, workers, processed, num_good_proxies,
    checks, chrome, raised, pages, oplog, http, fetched, ret, mgr>>

\* The driver session (described with its actions below).
VARIABLES
  config,            \* proxy.enabled, rotation.enabled, random_type, interval
  proxy_arg,         \* __init__: the proxy argument (NoProxy for None)
  s_proxy_list,      \* self.proxy_list
  set_proxy,         \* self.set_proxy (NoProxy for None)
  rotation_counter,  \* self.rotation_counter: NoneSeq or <<n>>
  get_page,          \* the method self.get_page is bound to
  drivers,           \* every underlying driver launched, in order
  driver,            \* self.driver: index into drivers
  s_pc,              \* where the session's caller is
  fetches,           \* calls of get_page so far
  fetch,             \* the running or last call of get_page
  rotations,         \* the calls of get_page (by number) that rotated
  first_proxy,       \* set_proxy as __init__ left it
  closes             \* calls of close so far

sessionVars ==
  <<config, proxy_arg, s_proxy_list, set_proxy, rotation_counter, get_page,
    drivers, driver, s_pc, fetches, fetch, rotations, first_proxy, closes>>

\* Direct calls of save_proxy_list and load_latest_proxy_list (described
\* with their actions below).
VARIABLES
  saved,             \* the calls of save_proxy_list made so far, in order
  loaded             \* what the last load_latest_proxy_list returned

directVars == <<saved, loaded>>

\* The legacy session of mywebdriver_olds (described with its actions below).
VARIABLES
  enable_rotation,   \* self.enable_rotation
  rotation_interval, \* self.rotation_interval
  request_counter,   \* self.request_counter
  current_url,       \* self.driver.current_url
  stack,             \* the calls of navigate and rotate_ip in progress
  navigates,         \* calls of navigate made by the session's user
  ip_rotations,      \* rotations that succeeded within the running call
  clean,             \* no rotation attempt and no driver.get has failed
  navigated           \* how the last call of navigate ended

legacyVars ==
  <<enable_rotation, rotation_interval, request_counter, current_url, stack,
    navigates, ip_rotations, clean, navigated>>

cacheVars == <<files, raw_files>>
poolVars ==
  <<submitted, work_queue, futures, workers, processed, num_good_proxies,
    checks, chrome, raised, pages>>

Slots == 1..MaxProxies
Threads == 1..MaxWorkers
N == Len(proxy_list)

NoPage ==
  [kind |-> "unset", tournament |-> FALSE, error |-> FALSE, err |-> NoError]
NoFuture == [state |-> "none", result |-> FALSE, exception |-> None]
IdleWorker == [pc |-> "idle", task |-> 0, options |-> <<>>]
NoCall ==
  [force_refresh |-> FALSE, max_cache_age_hours |-> 0, caller |-> "none",
   skip_testing |-> FALSE]
NoReturn == [kind |-> "none", value |-> <<>>]
NoResponse == [ok |-> FALSE, lines |-> << <<"<no request>">> >>]

\* The manager before its call.
ManagerIdle ==
  /\ now = 0
  /\ pc = "idle"
  /\ call = NoCall
  /\ calls = 0
  /\ proxy_list = <<>>
  /\ submitted = 0
  /\ work_queue = <<>>
  /\ futures = [i \in Slots |-> NoFuture]
  /\ workers = [w \in Threads |-> IdleWorker]
  /\ processed = {}
  /\ num_good_proxies = 0
  /\ checks = [i \in Slots |-> 0]
  /\ chrome = [i \in Slots |-> "none"]
  /\ raised = [i \in Slots |-> None]
  /\ pages = [i \in Slots |-> NoPage]
  /\ oplog = <<>>
  /\ http = NoResponse
  /\ fetched = NoReturn
  /\ ret = NoReturn
  /\ mgr = "none"

\* The lists an earlier run can have checked: one candidate, found valid or
\* failed in its navigation.
PriorLists ==
  { <<Classify(ProxyDict(_parse_proxy_line(GoodLine(1))),
               [kind |-> "dict", tournament |-> TRUE, error |-> FALSE,
                err |-> NoError], 0).proxy>>,
    <<Failed(ProxyDict(_parse_proxy_line(GoodLine(1))), "NavigationError")>> }

\* data/proxies and data/proxies/raw as the refresh of an earlier run at
\* tick 0 left them.
PriorCaches ==
  {[files |-> save_proxy_list(EmptyDir, ValidOnes(list), 0),
    raw_files |-> save_proxy_list(EmptyDir, list, 0)] : list \in PriorLists}

\* A behaviour follows one call of get_proxy_list: with a pool of any size
\* from empty directories, or with a pool of one thread from the directories
\* of an earlier run.
ManagerInit ==
  /\ \/ /\ max_workers \in 1..MaxWorkers
        /\ files = EmptyDir
        /\ raw_files = EmptyDir
     \/ /\ max_workers = 1
        /\ \E cache \in PriorCaches :
             files = cache.files /\ raw_files = cache.raw_files
  /\ ManagerIdle

\* No manager: the session's behaviours leave these as they are.
NoManager ==
  /\ max_workers = 1
  /\ files = EmptyDir
  /\ raw_files = EmptyDir
  /\ ManagerIdle

\* Time passes before the call, where it counts through the age of a
\* snapshot, and while the checks run (counted when the last of them has been
\* collected).
Tick ==
  /\ now < MaxClock
  /\ \/ pc = "idle" /\ calls = 0 /\ json_files(files) # {}
     \/ pc = "collect" /\ processed = 1..N
  /\ now' = now + 1
  /\ UNCHANGED <<files, raw_files, max_workers, builder, pc, call, calls, proxy_list,
                 poolVars, oplog, http, fetched, ret, mgr>>
  /\ UNCHANGED <<sessionVars, directVars, legacyVars>>

\* return of get_proxy_list to its caller; ManagerWebdriver.__init__ raises
\* ValueError on an empty list.
Return(value) ==
  /\ ret' = [kind |-> "list", value |-> value]
  /\ pc' = "idle"
  /\ mgr' = IF call.caller = "manager"
            THEN IF Len(value) < 1 THEN "ValueError" ELSE "ready"
            ELSE mgr

\* get_proxy_list up to the cache decision.
Enter(force_refresh, max_cache_age_hours, caller) ==
  LET c == [force_refresh |-> force_refresh,
            max_cache_age_hours |-> max_cache_age_hours, caller |-> caller,
            skip_testing |-> FALSE]
      fresh == is_cache_fresh(files, now, max_cache_age_hours)
  IN  /\ call' = c
      /\ calls' = calls + 1
      /\ IF ~force_refresh /\ fresh[1] /\ fresh[2] # -1
         THEN /\ oplog' = <<"load">>
              /\ ret' = [kind |-> "list",
                         value |-> load_proxy_list_from_file(files, fresh[2])]
              /\ pc' = "idle"
              /\ mgr' = IF caller = "manager"
                        THEN IF Len(ret'.value) < 1 THEN "ValueError" ELSE "ready"
                        ELSE mgr
         ELSE /\ oplog' = <<>>
              /\ pc' = "fetch"
              /\ ret' = NoReturn
              /\ mgr' = mgr

MaxAges == {HoursPerTick, DefaultMaxAge}

\* A direct call of get_proxy_list.
get_proxy_list ==
  /\ pc = "idle"
  /\ calls = 0
  /\ \E force_refresh \in BOOLEAN, max_age \in MaxAges :
       Enter(force_refresh, max_age, "direct")
  /\ UNCHANGED <<now, files, raw_files, max_workers, builder, proxy_list,
                 poolVars, http, fetched>>
  /\ UNCHANGED <<sessionVars, directVars, legacyVars>>

\* Mutant of ManagerWebdriver: the result of the probe is acted on when
\* get_proxy_list has been entered.
ManagerWebdriver_LateProbe ==
  /\ pc = "idle"
  /\ calls = 0
  /\ mgr = "none"
  /\ \E connected \in BOOLEAN :
       IF ~connected
       THEN /\ mgr' = "ConnectionError"
            /\ call' = [force_refresh |-> TRUE,
                        max_cache_age_hours |-> DefaultMaxAge,
                        caller |-> "manager", skip_testing |-> FALSE]
            /\ calls' = calls + 1
            /\ pc' = "fetch"
            /\ UNCHANGED <<oplog, ret>>
       ELSE \E force_refresh \in BOOLEAN :
              Enter(force_refresh, DefaultMaxAge, "manager")
  /\ UNCHANGED <<now, files, raw_files, max_workers, builder, proxy_list,
                 poolVars, http, fetched>>
  /\ UNCHANGED <<sessionVars, directVars, legacyVars>>

\* ManagerWebdriver.__init__: the connectivity probe, then get_proxy_list.
ManagerWebdriver ==
  /\ pc = "idle"
  /\ calls = 0
  /\ mgr = "none"
  /\ \E connected \in BOOLEAN :
       IF ~connected
       THEN /\ mgr' = "ConnectionError"
            /\ UNCHANGED <<pc, call, calls, oplog, ret>>
       ELSE \E force_refresh \in BOOLEAN :
              Enter(force_refresh, DefaultMaxAge, "manager")
  /\ UNCHANGED <<now, files, raw_files, max_workers, builder, proxy_list,
                 poolVars, http, fetched>>
  /\ UNCHANGED <<sessionVars, directVars, legacyVars>>

\* Mutant of Fetch: a fetch without candidates goes on to save the empty list
\* in both directories before it returns.
Fetch_SaveEmpty ==
  /\ pc = "fetch"
  /\ \E response \in Responses :
       LET got == fetch_proxy_list(response)
       IN  /\ http' = response
           /\ fetched' = got
           /\ proxy_list' = got.value
           /\ IF got.value = <<>>
              THEN /\ oplog' = Append(oplog, "fetch")
                   /\ files' = save_proxy_list(files, <<>>, now)
                   /\ raw_files' = save_proxy_list(raw_files, <<>>, now)
                   /\ Return(<<>>)
              ELSE /\ oplog' = <<"fetch", "check_all">>
                   /\ pc' = "submit"
                   /\ UNCHANGED <<files, raw_files, ret, mgr>>
  /\ submitted' = 0
  /\ work_queue' = <<>>
  /\ futures' = [i \in Slots |-> NoFuture]
  /\ processed' = {}
  /\ num_good_proxies' = 0
  /\ checks' = [i \in Slots |-> 0]
  /\ chrome' = [i \in Slots |-> "none"]
  /\ raised' = [i \in Slots |-> None]
  /\ pages' = [i \in Slots |-> NoPage]
  /\ UNCHANGED <<now, max_workers, builder, call, calls, workers>>
  /\ UNCHANGED <<sessionVars, directVars, legacyVars>>

\* fetch_and_process_proxies, step 1, and the start of
\* check_all_proxies_threaded unless the testing is skipped.
Fetch ==
  /\ pc = "fetch"
  /\ \E response \in Responses :
       LET got == fetch_proxy_list(response)
       IN  /\ http' = response
           /\ fetched' = got
           /\ proxy_list' = got.value
           /\ IF got.value = <<>>
              THEN /\ oplog' = Append(oplog, "fetch")
                   /\ Return(<<>>)
              ELSE IF call.skip_testing
                   THEN /\ oplog' = Append(oplog, "fetch")
                        /\ pc' = "step3"
                        /\ UNCHANGED <<ret, mgr>>
                   ELSE /\ oplog' = <<"fetch", "check_all">>
                        /\ pc' = "submit"
                        /\ UNCHANGED <<ret, mgr>>
  /\ submitted' = 0
  /\ work_queue' = <<>>
  /\ futures' = [i \in Slots |-> NoFuture]
  /\ processed' = {}
  /\ num_good_proxies' = 0
  /\ checks' = [i \in Slots |-> 0]
  /\ chrome' = [i \in Slots |-> "none"]
  /\ raised' = [i \in Slots |-> None]
  /\ pages' = [i \in Slots |-> NoPage]
  /\ UNCHANGED <<now, files, raw_files, max_workers, builder, call, calls,
                 workers>>
  /\ UNCHANGED <<sessionVars, directVars, legacyVars>>

\* Mutant of Submit: each check is queued twice.
Submit_Twice ==
  /\ pc = "submit"
  /\ submitted < N
  /\ submitted' = submitted + 1
  /\ futures' = [futures EXCEPT ![submitted + 1].state = "pending"]
  /\ work_queue' = Append(Append(work_queue, submitted + 1), submitted + 1)
  /\ pc' = IF submitted + 1 = N THEN "collect" ELSE "submit"
  /\ UNCHANGED <<now, files, raw_files, max_workers, builder, call, calls, proxy_list,
                 workers, processed, num_good_proxies, checks, chrome, raised,
                 pages,
                 oplog, http, fetched, ret, mgr>>
  /\ UNCHANGED <<sessionVars, directVars, legacyVars>>

\* excutor.submit(self.check_proxy, options_builder, proxy), in list order.
Submit ==
  /\ pc = "submit"
  /\ submitted < N
  /\ submitted' = submitted + 1
  /\ futures' = [futures EXCEPT ![submitted + 1].state = "pending"]
  /\ work_queue' = Append(work_queue, submitted + 1)
  /\ pc' = IF submitted + 1 = N THEN "collect" ELSE "submit"
  /\ UNCHANGED <<now, files, raw_files, max_workers, builder, call, calls, proxy_list,
                 workers, processed, num_good_proxies, checks, chrome, raised,
                 pages,
                 oplog, http, fetched, ret, mgr>>
  /\ UNCHANGED <<sessionVars, directVars, legacyVars>>

callerVars ==
  <<now, files, raw_files, max_workers, builder, pc, call, calls, oplog, http,
    fetched, ret, mgr>>

\* MyWebDriver.close on the Chrome of a check: driver.quit() if there is one.
close(status) == IF status = "live" THEN "quit" ELSE status

\* Mutant of Finish: the pool thread does not come back for another task.
Finish_Lost(w, i, proxy, result) ==
  /\ proxy_list' = [proxy_list EXCEPT ![i] = proxy]
  /\ futures' = [futures EXCEPT ![i] =
                   [state |-> "finished", result |-> result, exception |-> None]]
  /\ workers' = [workers EXCEPT ![w] = [IdleWorker EXCEPT !.pc = "lost"]]

\* A check returns: the record as it leaves it, the future's result.
Finish(w, i, proxy, result) ==
  /\ proxy_list' = [proxy_list EXCEPT ![i] = proxy]
  /\ futures' = [futures EXCEPT ![i] =
                   [state |-> "finished", result |-> result, exception |-> None]]
  /\ workers' = [workers EXCEPT ![w] = IdleWorker]

\* Mutant of WorkerTake: the task stays in the queue.
WorkerTake_NoPop(w) ==
  /\ w <= max_workers
  /\ workers[w].pc = "idle"
  /\ work_queue # <<>>
  /\ LET i == Head(work_queue)
     IN  /\ work_queue' = work_queue
         /\ futures' = [futures EXCEPT ![i].state = "running"]
         /\ checks' = [checks EXCEPT ![i] = @ + 1]
         /\ workers' = [workers EXCEPT ![w] =
                          [pc |-> "construct", task |-> i, options |-> <<>>]]
  /\ UNCHANGED <<callerVars, proxy_list, submitted, processed,
                 num_good_proxies, chrome, raised, pages>>
  /\ UNCHANGED <<sessionVars, directVars, legacyVars>>

\* Mutant of WorkerTake: a task is started when the tasks before it have
\* finished.
WorkerTake_InOrder(w) ==
  /\ w <= max_workers
  /\ workers[w].pc = "idle"
  /\ work_queue # <<>>
  /\ \A j \in 1..(Head(work_queue) - 1) : futures[j].state = "finished"
  /\ LET i == Head(work_queue)
     IN  /\ work_queue' = Tail(work_queue)
         /\ futures' = [futures EXCEPT ![i].state = "running"]
         /\ checks' = [checks EXCEPT ![i] = @ + 1]
         /\ workers' = [workers EXCEPT ![w] =
                          [pc |-> "construct", task |-> i, options |-> <<>>]]
  /\ UNCHANGED <<callerVars, proxy_list, submitted, processed,
                 num_good_proxies, chrome, raised, pages>>
  /\ UNCHANGED <<sessionVars, directVars, legacyVars>>

\* A pool thread takes the next task and enters check_proxy.
WorkerTake(w) ==
  /\ w <= max_workers
  /\ workers[w].pc = "idle"
  /\ work_queue # <<>>
  /\ LET i == Head(work_queue)
     IN  /\ work_queue' = Tail(work_queue)
         /\ futures' = [futures EXCEPT ![i].state = "running"]
         /\ checks' = [checks EXCEPT ![i] = @ + 1]
         /\ workers' = [workers EXCEPT ![w] =
                          [pc |-> "construct", task |-> i, options |-> <<>>]]
  /\ UNCHANGED <<callerVars, proxy_list, submitted, processed,
                 num_good_proxies, chrome, raised, pages>>
  /\ UNCHANGED <<sessionVars, directVars, legacyVars>>

\* check_proxy: add_proxy_and_build and MyWebDriver(...).  The constructor
\* launches Chrome and then sets the page-load timeout; either may raise, and
\* the outer handler then marks the record.
ConstructOutcomes == {"ok", "launch_raises", "timeout_raises"}

\* Mutant of WorkerConstruct: add_proxy_and_build adds the arguments to the
\* options of the shared builder itself and returns them.
WorkerConstruct_InPlace(w) ==
  /\ workers[w].pc = "construct"
  /\ LET i == workers[w].task
         built == add_proxy_and_build(builder, proxy_list[i])
     IN  IF built.raised
         THEN /\ Finish(w, i, Failed(proxy_list[i], "ValueError"), FALSE)
              /\ raised' = [raised EXCEPT ![i] = "ValueError"]
              /\ UNCHANGED <<chrome, builder>>
         ELSE /\ builder' = built.arguments
              /\ \E outcome \in ConstructOutcomes :
                IF outcome = "ok"
                THEN /\ chrome' = [chrome EXCEPT ![i] = "live"]
                     /\ workers' = [workers EXCEPT ![w].pc = "navigate",
                                                   ![w].options = built.arguments]
                     /\ UNCHANGED <<proxy_list, futures, raised>>
                ELSE /\ chrome' = [chrome EXCEPT ![i] =
                                     IF outcome = "timeout_raises"
                                     THEN "live" ELSE @]
                     /\ raised' = [raised EXCEPT ![i] = "SessionConstructionError"]
                     /\ Finish(w, i,
                               Failed(proxy_list[i], "SessionConstructionError"),
                               FALSE)
  /\ UNCHANGED <<now, files, raw_files, max_workers, pc, call, calls, oplog,
                 http, fetched, ret, mgr>>
  /\ UNCHANGED <<submitted, work_queue, processed, num_good_proxies, checks,
                 pages>>
  /\ UNCHANGED <<sessionVars, directVars, legacyVars>>

WorkerConstruct(w) ==
  /\ workers[w].pc = "construct"
  /\ LET i == workers[w].task
         built == add_proxy_and_build(builder, proxy_list[i])
     IN  IF built.raised
         THEN /\ Finish(w, i, Failed(proxy_list[i], "ValueError"), FALSE)
              /\ raised' = [raised EXCEPT ![i] = "ValueError"]
              /\ UNCHANGED chrome
         ELSE \E outcome \in ConstructOutcomes :
                IF outcome = "ok"
                THEN /\ chrome' = [chrome EXCEPT ![i] = "live"]
                     /\ workers' = [workers EXCEPT ![w].pc = "navigate",
                                                   ![w].options = built.arguments]
                     /\ UNCHANGED <<proxy_list, futures, raised>>
                ELSE /\ chrome' = [chrome EXCEPT ![i] =
                                     IF outcome = "timeout_raises"
                                     THEN "live" ELSE @]
                     /\ raised' = [raised EXCEPT ![i] = "SessionConstructionError"]
                     /\ Finish(w, i,
                               Failed(proxy_list[i], "SessionConstructionError"),
                               FALSE)
  /\ UNCHANGED <<callerVars, submitted, work_queue, processed,
                 num_good_proxies, checks, pages>>
  /\ UNCHANGED <<sessionVars, directVars, legacyVars>>

\* check_proxy: go_get_json, driver.close() and the marking of the record;
\* a navigation that raises goes to the inner handler, which closes too.
WorkerNavigate(w) ==
  /\ workers[w].pc = "navigate"
  /\ LET i == workers[w].task
     IN  /\ chrome' = [chrome EXCEPT ![i] = close(@)]
         /\ \/ /\ raised' = [raised EXCEPT ![i] = "NavigationError"]
               /\ Finish(w, i, Failed(proxy_list[i], "NavigationError"), FALSE)
               /\ UNCHANGED pages
            \/ \E page_data \in PageData :
                 LET r == Classify(proxy_list[i], page_data, now)
                 IN  /\ Finish(w, i, r.proxy, r.result)
                     /\ pages' = [pages EXCEPT ![i] = page_data]
                     /\ UNCHANGED raised
  /\ UNCHANGED <<callerVars, submitted, work_queue, processed,
                 num_good_proxies, checks>>
  /\ UNCHANGED <<sessionVars, directVars, legacyVars>>

\* for future in as_completed(futures_to_proxy): one turn of the loop.
Collect(i) ==
  /\ pc = "collect"
  /\ i <= N
  /\ i \notin processed
  /\ futures[i].state = "finished"
  /\ processed' = processed \cup {i}
  /\ IF futures[i].exception = None
     THEN /\ num_good_proxies' =
               num_good_proxies + (IF futures[i].result THEN 1 ELSE 0)
          /\ UNCHANGED proxy_list
     ELSE /\ proxy_list' =
               [proxy_list EXCEPT ![i] = Failed(@, futures[i].exception)]
          /\ UNCHANGED num_good_proxies
  /\ UNCHANGED <<callerVars, submitted, work_queue, futures, workers, checks,
                 chrome, raised, pages>>
  /\ UNCHANGED <<sessionVars, directVars, legacyVars>>

\* check_all_proxies_threaded returns; fetch_and_process_proxies filters and
\* saves the valid proxies.
SaveValid ==
  /\ pc = "collect"
  /\ processed = 1..N
  /\ files' = save_proxy_list(files, ValidOnes(proxy_list), now)
  /\ oplog' = Append(oplog, "save")
  /\ pc' = "save_raw"
  /\ UNCHANGED <<now, raw_files, max_workers, builder, call, calls, proxy_list,
                 poolVars, http, fetched, ret, mgr>>
  /\ UNCHANGED <<sessionVars, directVars, legacyVars>>

\* fetch_and_process_proxies saves the whole list under raw/ and returns the
\* valid proxies.
SaveRaw ==
  /\ pc = "save_raw"
  /\ raw_files' = save_proxy_list(raw_files, proxy_list, now)
  /\ oplog' = Append(oplog, "save_raw")
  /\ Return(ValidOnes(proxy_list))
  /\ UNCHANGED <<now, files, max_workers, builder, call, calls, proxy_list, poolVars,
                 http, fetched>>
  /\ UNCHANGED <<sessionVars, directVars, legacyVars>>

\* The local valid_proxies of fetch_and_process_proxies: step 2 binds it, and
\* a call that skips step 2 reaches step 3 with the name unbound.
valid_proxies ==
  IF call.skip_testing
  THEN [bound |-> FALSE, value |-> <<>>]
  ELSE [bound |-> TRUE, value |-> ValidOnes(proxy_list)]

\* A direct call of fetch_and_process_proxies(skip_testing=True).
fetch_and_process_proxies ==
  /\ pc = "idle"
  /\ calls = 0
  /\ call' = [NoCall EXCEPT !.caller = "direct", !.skip_testing = TRUE]
  /\ calls' = calls + 1
  /\ oplog' = <<>>
  /\ pc' = "fetch"
  /\ UNCHANGED <<now, files, raw_files, max_workers, builder, proxy_list, poolVars,
                 http, fetched, ret, mgr>>
  /\ UNCHANGED <<sessionVars, directVars, legacyVars>>

\* fetch_and_process_proxies, step 3, when step 2 was skipped: the try block
\* with the two saves.  The read of an unbound valid_proxies raises
\* UnboundLocalError before save_proxy_list is entered, the raw save that
\* follows it in the block is not reached, and except Exception logs it.
Step3 ==
  /\ pc = "step3"
  /\ IF valid_proxies.bound
     THEN /\ files' = save_proxy_list(files, valid_proxies.value, now)
          /\ raw_files' = save_proxy_list(raw_files, proxy_list, now)
          /\ oplog' = oplog \o <<"save", "save_raw">>
     ELSE UNCHANGED <<files, raw_files, oplog>>
  /\ pc' = "return"
  /\ UNCHANGED <<now, max_workers, builder, call, calls, proxy_list, poolVars, http,
                 fetched, ret, mgr>>
  /\ UNCHANGED <<sessionVars, directVars, legacyVars>>

\* fetch_and_process_proxies: return valid_proxies.  The read of the unbound
\* name raises UnboundLocalError to the caller.
ReturnValid ==
  /\ pc = "return"
  /\ IF valid_proxies.bound
     THEN Return(valid_proxies.value)
     ELSE /\ ret' = [kind |-> "UnboundLocalError", value |-> <<>>]
          /\ pc' = "idle"
          /\ mgr' = mgr
  /\ UNCHANGED <<now, files, raw_files, max_workers, builder, call, calls, proxy_list,
                 poolVars, oplog, http, fetched>>
  /\ UNCHANGED <<sessionVars, directVars, legacyVars>>

-----------------------------------------------------------------------------
(***************************************************************************)
(* The driver session, MyWebDriver.  An underlying selenium driver is      *)
(* open (it has a window and serves navigations), closed (close() shut its *)
(* window) or quit.  drivers lists every driver the session launched and   *)
(* driver is the index of the one self.driver refers to (0: none).         *)
(***************************************************************************)
MaxInterval == 3     \* largest rotation interval
MaxFetches  == 4     \* page fetches of one session
MaxCloses   == 2     \* calls of close of one session

\* None where a proxy dict is expected: it has no proxy_url to build with.
NoProxy == [ProxyDict(<<"", "", "", "">>) EXCEPT !.proxy_url = Absent]
PoolProxy(i) == ProxyDict(_parse_proxy_line(GoodLine(i)))
PoolProxies == [i \in 1..MaxProxies |-> PoolProxy(i)]

Policies ==
  {[random_type |-> "fixed", interval |-> <<n, n>>] : n \in 0..MaxInterval}
    \cup {[random_type |-> "uniform", interval |-> <<lo, hi>>] :
            lo \in 0..MaxInterval, hi \in 0..MaxInterval}

\* Every policy with rotation on; one policy where the policy is not read.
Configs ==
  {[proxy_enabled |-> TRUE, rotation_enabled |-> TRUE,
    random_type |-> pol.random_type, interval |-> pol.interval] :
     pol \in {q \in Policies : q.interval[1] <= q.interval[2]}}
  \cup
  {[proxy_enabled |-> pe, rotation_enabled |-> re,
    random_type |-> "fixed", interval |-> <<MaxInterval, MaxInterval>>] :
     pe \in BOOLEAN, re \in BOOLEAN}

\* Mutant of _set_proxy_rotation_counter: the upper end of the interval is
\* overshot by one.
_set_proxy_rotation_counter_Beyond(cfg, counter) ==
  IF cfg.random_type = "fixed" THEN {<<cfg.interval[1] + 1>>}
  ELSE IF cfg.random_type = "uniform"
       THEN {<<n>> : n \in cfg.interval[1]..(cfg.interval[2] + 1)}
       ELSE {counter}

\* _set_proxy_rotation_counter: the values the counter can get.
_set_proxy_rotation_counter(cfg, counter) ==
  IF cfg.random_type = "fixed" THEN {<<cfg.interval[1]>>}
  ELSE IF cfg.random_type = "uniform"
       THEN {<<n>> : n \in cfg.interval[1]..cfg.interval[2]}
       ELSE {counter}

\* Mutant of _set_random_proxy_from_list: the proxy in use is kept.
_set_random_proxy_from_list_Keep(list, current) == {current}

\* Mutant of _set_random_proxy_from_list: the proxy in use is left out of the
\* draw when the list holds another one.
_set_random_proxy_from_list_Other(list, current) ==
  IF \E i \in DOMAIN list : list[i] # current
  THEN {list[i] : i \in {j \in DOMAIN list : list[j] # current}}
  ELSE {current}

\* _set_random_proxy_from_list: the values set_proxy can get.
_set_random_proxy_from_list(list, current) ==
  IF list # <<>> THEN {list[i] : i \in DOMAIN list} ELSE {current}

\* Mutant of SessionFields: the list is looked at before the single proxy.
SessionFields_ListFirst(cfg, single, list) ==
  IF cfg.proxy_enabled
  THEN IF list # <<>>
       THEN IF cfg.rotation_enabled
            THEN {[set_proxy |-> p, rotation_counter |-> c,
                   get_page |-> "go_get_json_rotation"] :
                    p \in _set_random_proxy_from_list(list, NoProxy),
                    c \in _set_proxy_rotation_counter(cfg, NoneSeq)}
            ELSE {[set_proxy |-> p, rotation_counter |-> NoneSeq,
                   get_page |-> "go_get_json"] :
                    p \in _set_random_proxy_from_list(list, NoProxy)}
       ELSE {[set_proxy |-> single, rotation_counter |-> NoneSeq,
              get_page |-> "go_get_json"]}
  ELSE {[set_proxy |-> NoProxy, rotation_counter |-> NoneSeq,
         get_page |-> "go_get_json"]}

\* The fields of a session that __init__ sets before it launches Chrome.
SessionFields(cfg, single, list) ==
  IF cfg.proxy_enabled
  THEN IF single # NoProxy
       THEN {[set_proxy |-> single, rotation_counter |-> NoneSeq,
              get_page |-> "go_get_json"]}
       ELSE IF list # <<>>
            THEN IF cfg.rotation_enabled
                 THEN {[set_proxy |-> p, rotation_counter |-> c,
                        get_page |-> "go_get_json_rotation"] :
                         p \in _set_random_proxy_from_list(list, NoProxy),
                         c \in _set_proxy_rotation_counter(cfg, NoneSeq)}
                 ELSE {[set_proxy |-> p, rotation_counter |-> NoneSeq,
                        get_page |-> "go_get_json"] :
                         p \in _set_random_proxy_from_list(list, NoProxy)}
            ELSE {[set_proxy |-> NoProxy, rotation_counter |-> NoneSeq,
                   get_page |-> "go_get_json"]}
  ELSE {[set_proxy |-> NoProxy, rotation_counter |-> NoneSeq,
         get_page |-> "go_get_json"]}

\* webdriver.Chrome(service=service, options=options)
Chrome(arguments) == [arguments |-> arguments, status |-> "open"]

OpenDrivers == {d \in DOMAIN drivers : drivers[d].status = "open"}

\* The driver routes its traffic through proxy p.
Through(d, p) == \E a \in DOMAIN drivers[d].arguments :
                   drivers[d].arguments[a] = "--proxy-server=" \o p.proxy_url

NoFetch ==
  [counter |-> NoneSeq, rotated |-> FALSE, rebuilt |-> FALSE, served |-> 0,
   done |-> FALSE, raised |-> FALSE]

InitSession ==
  /\ config \in Configs
  /\ proxy_arg \in {NoProxy} \cup {PoolProxy(i) : i \in 1..MaxProxies}
  /\ s_proxy_list \in {SubSeq(PoolProxies, 1, k) : k \in 0..MaxProxies}
  /\ set_proxy = NoProxy
  /\ rotation_counter = NoneSeq
  /\ get_page = "go_get_json"
  /\ drivers = <<>>
  /\ driver = 0
  /\ s_pc = "new"
  /\ fetches = 0
  /\ fetch = NoFetch
  /\ rotations = {}
  /\ first_proxy = NoProxy
  /\ closes = 0

\* MyWebDriver.__init__: the proxy logic, then _init_from_chromeOptions with
\* the options it was given.  Chrome may fail to launch, and
\* set_page_load_timeout may raise once it has.
MyWebDriver ==
  /\ s_pc = "new"
  /\ \E f \in SessionFields(config, proxy_arg, s_proxy_list) :
       /\ set_proxy' = f.set_proxy
       /\ first_proxy' = f.set_proxy
       /\ rotation_counter' = f.rotation_counter
       /\ get_page' = f.get_page
  /\ \E outcome \in ConstructOutcomes :
       /\ drivers' = IF outcome = "launch_raises" THEN drivers
                     ELSE Append(drivers, Chrome(BaseArguments))
       /\ driver' = IF outcome = "launch_raises" THEN driver
                    ELSE Len(drivers) + 1
       /\ s_pc' = IF outcome = "ok" THEN "ready" ELSE "failed"
  /\ UNCHANGED <<config, proxy_arg, s_proxy_list, fetches, fetch, rotations,
                 closes>>
  /\ UNCHANGED <<managerVars, directVars, legacyVars>>

\* Mutant of go_get_json_rotation: a fetch that does not rotate leaves the
\* counter as it is.
go_get_json_rotation_NoDecrement ==
  /\ s_pc = "ready"
  /\ get_page = "go_get_json_rotation"
  /\ fetches < MaxFetches
  /\ fetches' = fetches + 1
  /\ IF rotation_counter[1] <= 0
     THEN /\ rotation_counter' \in
               _set_proxy_rotation_counter(config, rotation_counter)
          /\ set_proxy' \in
               _set_random_proxy_from_list(s_proxy_list, set_proxy)
          /\ fetch' = [NoFetch EXCEPT !.counter = rotation_counter,
                                      !.rotated = TRUE]
          /\ rotations' = rotations \cup {fetches + 1}
          /\ s_pc' = "close_old"
     ELSE /\ rotation_counter' = rotation_counter
          /\ set_proxy' = set_proxy
          /\ fetch' = [NoFetch EXCEPT !.counter = rotation_counter]
          /\ rotations' = rotations
          /\ s_pc' = "navigate"
  /\ UNCHANGED <<config, proxy_arg, s_proxy_list, get_page, drivers, driver,
                 first_proxy, closes>>
  /\ UNCHANGED <<managerVars, directVars, legacyVars>>

\* Mutant of go_get_json_rotation: the fetch that rotates goes on to lower
\* the counter it has just reset.
go_get_json_rotation_DecrementReset ==
  /\ s_pc = "ready"
  /\ get_page = "go_get_json_rotation"
  /\ fetches < MaxFetches
  /\ fetches' = fetches + 1
  /\ IF rotation_counter[1] <= 0
     THEN /\ \E c \in _set_proxy_rotation_counter(config, rotation_counter) :
               rotation_counter' = <<c[1] - 1>>
          /\ set_proxy' \in
               _set_random_proxy_from_list(s_proxy_list, set_proxy)
          /\ fetch' = [NoFetch EXCEPT !.counter = rotation_counter,
                                      !.rotated = TRUE]
          /\ rotations' = rotations \cup {fetches + 1}
          /\ s_pc' = "close_old"
     ELSE /\ rotation_counter' = <<rotation_counter[1] - 1>>
          /\ set_proxy' = set_proxy
          /\ fetch' = [NoFetch EXCEPT !.counter = rotation_counter]
          /\ rotations' = rotations
          /\ s_pc' = "navigate"
  /\ UNCHANGED <<config, proxy_arg, s_proxy_list, get_page, drivers, driver,
                 first_proxy, closes>>
  /\ UNCHANGED <<managerVars, directVars, legacyVars>>

\* go_get_json_rotation up to self.driver.close(): the counter test, the
\* reset of the counter and the choice of the proxy.
go_get_json_rotation ==
  /\ s_pc = "ready"
  /\ get_page = "go_get_json_rotation"
  /\ fetches < MaxFetches
  /\ fetches' = fetches + 1
  /\ IF rotation_counter[1] <= 0
     THEN /\ rotation_counter' \in
               _set_proxy_rotation_counter(config, rotation_counter)
          /\ set_proxy' \in
               _set_random_proxy_from_list(s_proxy_list, set_proxy)
          /\ fetch' = [NoFetch EXCEPT !.counter = rotation_counter,
                                      !.rotated = TRUE]
          /\ rotations' = rotations \cup {fetches + 1}
          /\ s_pc' = "close_old"
     ELSE /\ rotation_counter' = <<rotation_counter[1] - 1>>
          /\ set_proxy' = set_proxy
          /\ fetch' = [NoFetch EXCEPT !.counter = rotation_counter]
          /\ rotations' = rotations
          /\ s_pc' = "navigate"
  /\ UNCHANGED <<config, proxy_arg, s_proxy_list, get_page, drivers, driver,
                 first_proxy, closes>>
  /\ UNCHANGED <<managerVars, directVars, legacyVars>>

\* get_page of a session without rotation: go_get_json.
go_get_json ==
  /\ s_pc = "ready"
  /\ get_page = "go_get_json"
  /\ fetches < MaxFetches
  /\ fetches' = fetches + 1
  /\ fetch' = [NoFetch EXCEPT !.counter = rotation_counter]
  /\ s_pc' = "navigate"
  /\ UNCHANGED <<config, proxy_arg, s_proxy_list, set_proxy, rotation_counter,
                 get_page, drivers, driver, rotations, first_proxy, closes>>
  /\ UNCHANGED <<managerVars, directVars, legacyVars>>

\* The fetch ends with an exception that reaches the caller of get_page.
Raise ==
  /\ fetch' = [fetch EXCEPT !.done = TRUE, !.raised = TRUE]
  /\ s_pc' = "ready"

\* Mutant of CloseOld: the old driver is left open.
CloseOld_Skip ==
  /\ s_pc = "close_old"
  /\ s_pc' = "rebuild"
  /\ UNCHANGED <<config, proxy_arg, s_proxy_list, set_proxy, rotation_counter,
                 get_page, drivers, driver, fetches, fetch, rotations,
                 first_proxy, closes>>
  /\ UNCHANGED <<managerVars, directVars, legacyVars>>

\* go_get_json_rotation: self.driver.close(), selenium's close of the window.
\* It raises when the driver has no open window.
CloseOld ==
  /\ s_pc = "close_old"
  /\ IF driver # 0 /\ drivers[driver].status = "open"
     THEN /\ drivers' = [drivers EXCEPT ![driver].status = "closed"]
          /\ s_pc' = "rebuild"
          /\ UNCHANGED fetch
     ELSE /\ Raise
          /\ UNCHANGED drivers
  /\ UNCHANGED <<config, proxy_arg, s_proxy_list, set_proxy, rotation_counter,
                 get_page, driver, fetches, rotations, first_proxy, closes>>
  /\ UNCHANGED <<managerVars, directVars, legacyVars>>

\* Mutant of _init_from_chromeOptionsBuilder: a failure of the rebuild is
\* swallowed and the fetch goes on to its navigation.
_init_from_chromeOptionsBuilder_Swallow ==
  /\ s_pc = "rebuild"
  /\ LET built == add_proxy_and_build(BaseArguments, set_proxy)
     IN  IF built.raised
         THEN UNCHANGED <<drivers, driver, fetch>>
         ELSE \E outcome \in ConstructOutcomes :
                IF outcome = "launch_raises"
                THEN UNCHANGED <<drivers, driver, fetch>>
                ELSE /\ drivers' = Append(drivers, Chrome(built.arguments))
                     /\ driver' = Len(drivers) + 1
                     /\ IF outcome = "timeout_raises"
                        THEN UNCHANGED fetch
                        ELSE fetch' = [fetch EXCEPT !.rebuilt = TRUE]
  /\ s_pc' = "navigate"
  /\ UNCHANGED <<config, proxy_arg, s_proxy_list, set_proxy, rotation_counter,
                 get_page, fetches, rotations, first_proxy, closes>>
  /\ UNCHANGED <<managerVars, directVars, legacyVars>>

\* Mutant of _init_from_chromeOptionsBuilder: a rebuild that fails puts the
\* counter back to 0, so that the next fetch rebuilds again.
_init_from_chromeOptionsBuilder_Retry ==
  /\ s_pc = "rebuild"
  /\ LET built == add_proxy_and_build(BaseArguments, set_proxy)
     IN  IF built.raised
         THEN Raise /\ rotation_counter' = <<0>> /\ UNCHANGED <<drivers, driver>>
         ELSE \E outcome \in ConstructOutcomes :
                IF outcome = "launch_raises"
                THEN /\ Raise
                     /\ rotation_counter' = <<0>>
                     /\ UNCHANGED <<drivers, driver>>
                ELSE /\ drivers' = Append(drivers, Chrome(built.arguments))
                     /\ driver' = Len(drivers) + 1
                     /\ IF outcome = "timeout_raises"
                        THEN Raise /\ rotation_counter' = <<0>>
                        ELSE /\ fetch' = [fetch EXCEPT !.rebuilt = TRUE]
                             /\ s_pc' = "navigate"
                             /\ UNCHANGED rotation_counter
  /\ UNCHANGED <<config, proxy_arg, s_proxy_list, set_proxy, get_page,
                 fetches, rotations, first_proxy, closes>>
  /\ UNCHANGED <<managerVars, directVars, legacyVars>>

\* _init_from_chromeOptionsBuilder: add_proxy_and_build(self.set_proxy), the
\* launch of Chrome and set_page_load_timeout.
_init_from_chromeOptionsBuilder ==
  /\ s_pc = "rebuild"
  /\ LET built == add_proxy_and_build(BaseArguments, set_proxy)
     IN  IF built.raised
         THEN Raise /\ UNCHANGED <<drivers, driver>>
         ELSE \E outcome \in ConstructOutcomes :
                IF outcome = "launch_raises"
                THEN Raise /\ UNCHANGED <<drivers, driver>>
                ELSE /\ drivers' = Append(drivers, Chrome(built.arguments))
                     /\ driver' = Len(drivers) + 1
                     /\ IF outcome = "timeout_raises"
                        THEN Raise
                        ELSE /\ fetch' = [fetch EXCEPT !.rebuilt = TRUE]
                             /\ s_pc' = "navigate"
  /\ UNCHANGED <<config, proxy_arg, s_proxy_list, set_proxy, rotation_counter,
                 get_page, fetches, rotations, first_proxy, closes>>
  /\ UNCHANGED <<managerVars, directVars, legacyVars>>

\* go_get_json: self.driver.get(url) and get_json_content.  The navigation
\* raises when the driver has no open window, and may raise when it has.
Navigate ==
  /\ s_pc = "navigate"
  /\ \/ /\ driver # 0 /\ drivers[driver].status = "open"
        /\ fetch' = [fetch EXCEPT !.done = TRUE, !.served = driver]
        /\ s_pc' = "ready"
     \/ Raise
  /\ UNCHANGED <<config, proxy_arg, s_proxy_list, set_proxy, rotation_counter,
                 get_page, drivers, driver, fetches, rotations, first_proxy, closes>>
  /\ UNCHANGED <<managerVars, directVars, legacyVars>>

\* Mutant of SessionClose: a driver whose window is closed is not quit.
SessionClose_OpenOnly ==
  /\ s_pc = "ready"
  /\ closes < MaxCloses
  /\ closes' = closes + 1
  /\ drivers' = IF driver # 0 /\ drivers[driver].status = "open"
                THEN [drivers EXCEPT ![driver].status = "quit"] ELSE drivers
  /\ UNCHANGED <<config, proxy_arg, s_proxy_list, set_proxy, rotation_counter,
                 get_page, driver, s_pc, fetches, fetch, rotations,
                 first_proxy>>
  /\ UNCHANGED <<managerVars, directVars, legacyVars>>

\* MyWebDriver.close: self.driver.quit() when there is a driver; self.driver
\* is left as it is.  The quit of Chrome's driver swallows the errors of the
\* quit command and stops the service, on a driver that was quit too.
SessionClose ==
  /\ s_pc = "ready"
  /\ closes < MaxCloses
  /\ closes' = closes + 1
  /\ drivers' = IF driver # 0
                THEN [drivers EXCEPT ![driver].status = "quit"] ELSE drivers
  /\ UNCHANGED <<config, proxy_arg, s_proxy_list, set_proxy, rotation_counter,
                 get_page, driver, s_pc, fetches, fetch, rotations,
                 first_proxy>>
  /\ UNCHANGED <<managerVars, directVars, legacyVars>>

\* No session: the manager's behaviours leave these as they are.
NoSession ==
  /\ config = [proxy_enabled |-> FALSE, rotation_enabled |-> FALSE,
               random_type |-> "fixed", interval |-> <<0, 0>>]
  /\ proxy_arg = NoProxy
  /\ s_proxy_list = <<>>
  /\ set_proxy = NoProxy
  /\ rotation_counter = NoneSeq
  /\ get_page = "go_get_json"
  /\ drivers = <<>>
  /\ driver = 0
  /\ s_pc = "none"
  /\ fetches = 0
  /\ fetch = NoFetch
  /\ rotations = {}
  /\ first_proxy = NoProxy
  /\ closes = 0

\* No legacy session.
NoLegacy ==
  /\ enable_rotation = FALSE
  /\ rotation_interval = 1
  /\ request_counter = 0
  /\ current_url = "data:,"
  /\ stack = <<>>
  /\ navigates = 0
  /\ ip_rotations = 0
  /\ clean = TRUE
  /\ navigated = "none"

\* The options builder as ChromeOptionsBuilder.__init__ leaves it.
NewBuilder == builder = BaseArguments

\* No direct call of the cache.
NoLoad == [kind |-> "none", value |-> <<>>, after |-> 0]
NoDirect == saved = <<>> /\ loaded = NoLoad

vars == <<managerVars, sessionVars, directVars, legacyVars>>

Init == ManagerInit /\ NoSession /\ NoDirect /\ NewBuilder /\ NoLegacy

Next ==
  \/ Tick
  \/ get_proxy_list
  \/ ManagerWebdriver
  \/ Fetch
  \/ Submit
  \/ \E w \in Threads : WorkerTake(w)
  \/ \E w \in Threads : WorkerConstruct(w)
  \/ \E w \in Threads : WorkerNavigate(w)
  \/ \E i \in Slots : Collect(i)
  \/ SaveValid
  \/ SaveRaw

Spec == Init /\ [][Next]_vars

(***************************************************************************)
(* The specification of a direct call of check_all_proxies_threaded, on a  *)
(* list whose first record may carry the marks of an earlier check.        *)
(***************************************************************************)
TournamentPage ==
  [kind |-> "dict", tournament |-> TRUE, error |-> FALSE, err |-> NoError]

\* A record as fetched, as an earlier check at tick 0 left it (valid, or
\* failed in its navigation), and a record without proxy_url.
CheckedBefore ==
  { PoolProxy(1),
    Classify(PoolProxy(1), TournamentPage, 0).proxy,
    Failed(PoolProxy(1), "NavigationError"),
    [PoolProxy(1) EXCEPT !.proxy_url = Absent] }

DirectLists ==
  { <<r>> \o [i \in 1..k |-> PoolProxy(i + 1)] :
      r \in CheckedBefore, k \in 0..(MaxProxies - 1) }

CheckInit ==
  /\ now = MaxClock
  /\ files = EmptyDir
  /\ raw_files = EmptyDir
  /\ max_workers \in 1..MaxWorkers
  /\ pc = "submit"
  /\ call = NoCall
  /\ calls = 0
  /\ proxy_list \in DirectLists
  /\ submitted = 0
  /\ work_queue = <<>>
  /\ futures = [i \in Slots |-> NoFuture]
  /\ workers = [w \in Threads |-> IdleWorker]
  /\ processed = {}
  /\ num_good_proxies = 0
  /\ checks = [i \in Slots |-> 0]
  /\ chrome = [i \in Slots |-> "none"]
  /\ raised = [i \in Slots |-> None]
  /\ pages = [i \in Slots |-> NoPage]
  /\ oplog = <<>>
  /\ http = NoResponse
  /\ fetched = NoReturn
  /\ ret = NoReturn
  /\ mgr = "none"
  /\ NoSession
  /\ NoDirect
  /\ NewBuilder
  /\ NoLegacy

CheckNext ==
  \/ Submit
  \/ \E w \in Threads : WorkerTake(w)
  \/ \E w \in Threads : WorkerConstruct(w)
  \/ \E w \in Threads : WorkerNavigate(w)
  \/ \E i \in Slots : Collect(i)

CheckSpec == CheckInit /\ [][CheckNext]_vars

\* The dispatching thread and the pool threads are scheduled: a thread that
\* can take its next step takes it, a navigation included.
CheckFairSpec ==
  /\ CheckSpec
  /\ WF_vars(Submit)
  /\ \A i \in Slots : WF_vars(Collect(i))
  /\ \A w \in Threads :
       /\ WF_vars(WorkerTake(w))
       /\ WF_vars(WorkerConstruct(w))
       /\ WF_vars(WorkerNavigate(w))

\* The same, but the navigation of the first record may never return.
HungTask == 1

CheckHangSpec ==
  /\ CheckSpec
  /\ WF_vars(Submit)
  /\ \A i \in Slots : WF_vars(Collect(i))
  /\ \A w \in Threads :
       /\ WF_vars(WorkerTake(w))
       /\ WF_vars(WorkerConstruct(w))
       /\ WF_vars(workers[w].task # HungTask /\ WorkerNavigate(w))

(***************************************************************************)
(* The specification of direct calls of the cache: save_proxy_list and     *)
(* load_latest_proxy_list in any order, as time passes.  The directory     *)
(* starts empty or with a file that an interrupted write left incomplete.  *)
(***************************************************************************)
MaxSaves == 2        \* calls of save_proxy_list in one behaviour

BlockedPage ==
  [kind |-> "dict", tournament |-> FALSE, error |-> TRUE,
   err |-> [code |-> "403", reason |-> "Forbidden"]]

\* A checked list: one record blocked, the others valid.
CheckedList ==
  <<Classify(PoolProxy(1), BlockedPage, 0).proxy>>
    \o [i \in 1..(MaxProxies - 1) |->
         Classify(PoolProxy(i + 1), TournamentPage, 0).proxy]

\* The calls of save_proxy_list: a list of valid records or of failed
\* records into data/proxies, a whole checked list into data/proxies/raw,
\* and a list into a directory of the caller's.
SaveCalls ==
  {[proxy_list |-> list, unfiltered |-> FALSE, custom_dir |-> FALSE] :
     list \in PriorLists \cup {ValidOnes(CheckedList)}}
  \cup {[proxy_list |-> CheckedList, unfiltered |-> TRUE, custom_dir |-> FALSE],
        [proxy_list |-> CheckedList, unfiltered |-> FALSE, custom_dir |-> TRUE]}

\* A file whose write was interrupted: the text stops inside the array.
Truncated(list) ==
  LET whole == json_dump(list) IN SubSeq(whole, 1, Len(whole) - 2)

InterruptedDir ==
  [EmptyDir EXCEPT ![0] = [mtime |-> 0, content |-> Truncated(CheckedList)]]

CacheInit ==
  /\ files \in {EmptyDir, InterruptedDir}
  /\ raw_files = EmptyDir
  /\ max_workers = 1
  /\ ManagerIdle
  /\ NoSession
  /\ NoDirect
  /\ NewBuilder
  /\ NoLegacy

\* save_proxy_list(proxy_list, unfiltered, custom_dir): the write goes to
\* custom_dir when given, else to data/proxies/raw or data/proxies.
CacheSave ==
  /\ Len(saved) < MaxSaves
  /\ \E c \in SaveCalls :
       /\ saved' = Append(saved, [call |-> c, at |-> now])
       /\ IF c.custom_dir THEN UNCHANGED <<files, raw_files>>
          ELSE IF c.unfiltered
               THEN /\ raw_files' = save_proxy_list(raw_files, c.proxy_list, now)
                    /\ UNCHANGED files
               ELSE /\ files' = save_proxy_list(files, c.proxy_list, now)
                    /\ UNCHANGED raw_files
  /\ UNCHANGED <<now, max_workers, builder, pc, call, calls, proxy_list, poolVars,
                 oplog, http, fetched, ret, mgr, loaded>>
  /\ UNCHANGED <<sessionVars, legacyVars>>

\* load_latest_proxy_list()
CacheLoad ==
  /\ loaded' = [kind |-> "list", value |-> load_latest_proxy_list(files),
                after |-> Len(saved)]
  /\ UNCHANGED <<managerVars, sessionVars, saved, legacyVars>>

CacheTick ==
  /\ now < MaxClock
  /\ now' = now + 1
  /\ UNCHANGED <<files, raw_files, max_workers, builder, pc, call, calls, proxy_list,
                 poolVars, oplog, http, fetched, ret, mgr>>
  /\ UNCHANGED <<sessionVars, directVars, legacyVars>>

CacheNext ==
  \/ CacheSave
  \/ CacheLoad
  \/ CacheTick

CacheSpec == CacheInit /\ [][CacheNext]_vars

(***************************************************************************)
(* The specification of a direct call of fetch_proxy_list, on registry     *)
(* texts of every shape: some of the header lines, then blank lines,       *)
(* totals lines and data lines of two and of seven fields, then a data     *)
(* line of 1 to MaxFieldCount fields, then the empty string that split     *)
(* leaves after a final line break.                                        *)
(***************************************************************************)
MaxFieldCount == 20  \* most fields of a data line
MaxBody == 2         \* most lines after the header lines

Shapes == {"plain", "spaced"}

\* Field i of a line of n fields: the flag glyph, the country, the city, the
\* relay address, further columns, and the hostname last.  A spaced line
\* has a country and a city of several words.
Field(n, shape, i) ==
  IF i = 1 THEN <<"glyph">>
  ELSE IF i = 2
       THEN IF shape = "plain" THEN <<"Austria">>
            ELSE <<"United", " ", "States">>
  ELSE IF i = 3
       THEN IF shape = "plain" THEN <<"Vienna">>
            ELSE <<"Salt", " ", "Lake", ", ", "UT">>
  ELSE IF i = 4 THEN <<"10.124.0." \o ToString(n)>>
  ELSE IF i = n THEN <<"host-" \o ToString(n)>>
  ELSE <<"column" \o ToString(i)>>

RECURSIVE Fields(_, _, _)
Fields(n, shape, i) ==
  IF i > n THEN <<>>
  ELSE (IF i = 1 THEN <<>> ELSE <<"  ">>)
         \o Field(n, shape, i) \o Fields(n, shape, i + 1)

FieldCounts == 1..(MaxFieldCount + 1)

\* The data lines, by number of fields and shape; a spaced line is indented
\* and ends in spaces.
DataLines ==
  [n \in FieldCounts, shape \in Shapes |->
     IF shape = "plain" THEN Fields(n, shape, 1)
     ELSE <<" ">> \o Fields(n, shape, 1) \o <<"  ">>]

DataLine(n, shape) == DataLines[n, shape]

\* Lines a body is made of: an empty line, a line of spaces, a totals line,
\* a line of two fields and a line of seven.
BodyLines ==
  {<<>>, <<"  ">>, HeaderLines[2], DataLine(MinParts - 2, "plain"),
   DataLine(MinParts + 3, "spaced")}

Bodies ==
  UNION {[1..k -> BodyLines] : k \in 0..MaxBody}

\* The line that ends a text: none, or a data line of any number of fields.
LastLines ==
  {<<>>}
    \cup {<<DataLine(n, "plain")>> : n \in 1..MaxFieldCount}
    \cup {<<DataLine(n, "spaced")>> : n \in {MinParts - 1, MinParts}}

\* What the request of a direct call can give.
RegistryResponses ==
  {[ok |-> FALSE, lines |-> <<>>]}
    \cup {[ok |-> TRUE,
           lines |-> SubSeq(HeaderLines, 1, h) \o body \o last \o end] :
            h \in 0..Len(HeaderLines), body \in Bodies, last \in LastLines,
            end \in {<<>>, << <<>> >>}}

ParseInit == NoManager /\ NoSession /\ NoDirect /\ NewBuilder /\ NoLegacy

\* proxy_list = pm.fetch_proxy_list()
FetchDirect ==
  /\ fetched.kind = "none"
  /\ \E response \in RegistryResponses :
       /\ http' = response
       /\ fetched' = fetch_proxy_list(response)
  /\ UNCHANGED <<now, files, raw_files, max_workers, builder, pc, call, calls,
                 proxy_list, poolVars, oplog, ret, mgr>>
  /\ UNCHANGED <<sessionVars, directVars, legacyVars>>

ParseNext == FetchDirect

ParseSpec == ParseInit /\ [][ParseNext]_vars

(***************************************************************************)
(* The specification of a direct call of fetch_and_process_proxies that    *)
(* skips the testing, from empty directories or from those of an earlier   *)
(* run.                                                                    *)
(***************************************************************************)
SkipInit ==
  /\ max_workers \in 1..MaxWorkers
  /\ \/ files = EmptyDir /\ raw_files = EmptyDir
     \/ \E cache \in PriorCaches :
          files = cache.files /\ raw_files = cache.raw_files
  /\ ManagerIdle
  /\ NoSession
  /\ NoDirect
  /\ NewBuilder
  /\ NoLegacy

SkipNext ==
  \/ Tick
  \/ fetch_and_process_proxies
  \/ Fetch
  \/ Step3
  \/ ReturnValid

SkipSpec == SkipInit /\ [][SkipNext]_vars

(***************************************************************************)
(* The specification of one driver session.                                *)
(***************************************************************************)
NextSession ==
  \/ MyWebDriver
  \/ go_get_json_rotation
  \/ go_get_json
  \/ CloseOld
  \/ _init_from_chromeOptionsBuilder
  \/ Navigate
  \/ SessionClose

SessionInit == NoManager /\ InitSession /\ NoDirect /\ NewBuilder /\ NoLegacy

SessionSpec == SessionInit /\ [][NextSession]_vars

(***************************************************************************)
(* The legacy session, MyWebDriver of mywebdriver_olds: navigate under its *)
(* retry decorator, ip_counter and rotate_ip.  rotate_ip calls navigate    *)
(* and navigate calls rotate_ip, so the calls in progress form a stack; a  *)
(* frame holds the function, the place in it, its url (the argument of     *)
(* navigate, the current_url rotate_ip stored) and the tries it has left.  *)
(* A call that would make the stack deeper than MaxDepth is not taken.     *)
(***************************************************************************)
MaxDepth == 4        \* deepest stack of calls followed
MaxNavigates == 3    \* calls of navigate by the session's user

RetryAttempts == 3   \* @retry(max_attempts=3, delay=2.0)
RotateAttempts == 5  \* rotate_ip: max_attempts = 5

NavigateFrame(url) ==
  [fn |-> "navigate", pc |-> "ip_counter", url |-> url, left |-> RetryAttempts]
RotateFrame(url) ==
  [fn |-> "rotate_ip", pc |-> "attempt", url |-> url, left |-> RotateAttempts]

Top == stack[Len(stack)]
Pop == SubSeq(stack, 1, Len(stack) - 1)
SetTop(frame) == [stack EXCEPT ![Len(stack)] = frame]

LegacyInit ==
  /\ enable_rotation \in BOOLEAN
  /\ rotation_interval \in 1..MaxInterval
  /\ request_counter = 0
  /\ current_url \in {"data:,", "about:blank"}
  /\ stack = <<>>
  /\ navigates = 0
  /\ ip_rotations = 0
  /\ clean = TRUE
  /\ navigated = "none"
  /\ NoManager
  /\ NoSession
  /\ NoDirect
  /\ builder = BaseArguments

\* The user of the session calls navigate(url).
LegacyNavigate ==
  /\ stack = <<>>
  /\ navigates < MaxNavigates
  /\ navigates' = navigates + 1
  /\ stack' = <<NavigateFrame("page")>>
  /\ ip_rotations' = 0
  /\ clean' = TRUE
  /\ navigated' = "none"
  /\ UNCHANGED <<enable_rotation, rotation_interval, request_counter,
                 current_url>>
  /\ UNCHANGED <<managerVars, sessionVars, directVars>>

\* navigate: self.ip_counter().  The counter goes up by one and rotate_ip is
\* called when it has reached the interval; rotate_ip stores current_url.
ip_counter ==
  /\ stack # <<>>
  /\ Top.fn = "navigate" /\ Top.pc = "ip_counter"
  /\ IF enable_rotation
     THEN /\ request_counter' = request_counter + 1
          /\ IF request_counter + 1 >= rotation_interval
             THEN /\ Len(stack) < MaxDepth
                  /\ stack' = Append(SetTop([Top EXCEPT !.pc = "get"]),
                                     RotateFrame(current_url))
             ELSE stack' = SetTop([Top EXCEPT !.pc = "get"])
     ELSE /\ stack' = SetTop([Top EXCEPT !.pc = "get"])
          /\ UNCHANGED request_counter
  /\ UNCHANGED <<enable_rotation, rotation_interval, current_url, navigates,
                 ip_rotations, clean, navigated>>
  /\ UNCHANGED <<managerVars, sessionVars, directVars>>

\* rotate_ip, one pass of its loop: driver_ip_reset and verify_ip_change
\* (which loads am.i.mullvad.net in the new driver).  When the IP changed the
\* counter is reset; when it did not, or an exception was caught, the next
\* pass follows, and rotate_ip returns False after the last.
rotate_ip ==
  /\ stack # <<>>
  /\ Top.fn = "rotate_ip" /\ Top.pc = "attempt"
  /\ \E result \in {"changed", "same_ip", "raises"} :
       IF result = "changed"
       THEN /\ request_counter' = 0
            /\ ip_rotations' = ip_rotations + 1
            /\ current_url' = "am.i.mullvad.net"
            /\ stack' = SetTop([Top EXCEPT !.pc = "changed"])
            /\ UNCHANGED clean
       ELSE /\ clean' = FALSE
            /\ current_url' = IF result = "same_ip" THEN "am.i.mullvad.net"
                              ELSE "data:,"
            /\ stack' = IF Top.left > 1
                        THEN SetTop([Top EXCEPT !.left = @ - 1])
                        ELSE Pop
            /\ UNCHANGED <<request_counter, ip_rotations>>
  /\ UNCHANGED <<enable_rotation, rotation_interval, navigates, navigated>>
  /\ UNCHANGED <<managerVars, sessionVars, directVars>>

\* rotate_ip after a change of IP: self.navigate(current_url) unless the
\* stored url is about:blank, and return True when that call has returned.
rotate_ip_navigate_back ==
  /\ stack # <<>>
  /\ Top.fn = "rotate_ip"
  /\ \/ /\ Top.pc = "changed"
        /\ IF Top.url # "about:blank"
           THEN /\ Len(stack) < MaxDepth
                /\ stack' = Append(SetTop([Top EXCEPT !.pc = "back"]),
                                   NavigateFrame(Top.url))
           ELSE stack' = Pop
     \/ /\ Top.pc = "back"
        /\ stack' = Pop
  /\ UNCHANGED <<enable_rotation, rotation_interval, request_counter,
                 current_url, navigates, ip_rotations, clean, navigated>>
  /\ UNCHANGED <<managerVars, sessionVars, directVars>>

\* navigate: self.driver.get(url).  A WebDriverException is raised again and
\* the retry decorator calls navigate once more while it has tries left;
\* the exception of the last try goes to the caller: the user, or the pass
\* of rotate_ip that called navigate, whose handler catches it.
driver_get ==
  /\ stack # <<>>
  /\ Top.fn = "navigate" /\ Top.pc = "get"
  /\ \E page_loaded \in BOOLEAN :
       IF page_loaded
       THEN /\ current_url' = Top.url
            /\ stack' = Pop
            /\ navigated' = IF Len(stack) = 1 THEN "returned" ELSE navigated
            /\ UNCHANGED clean
       ELSE /\ clean' = FALSE
            /\ UNCHANGED current_url
            /\ IF Top.left > 1
               THEN /\ stack' = SetTop([Top EXCEPT !.left = @ - 1,
                                                   !.pc = "ip_counter"])
                    /\ UNCHANGED navigated
               ELSE IF Len(stack) = 1
                    THEN /\ stack' = <<>>
                         /\ navigated' = "WebDriverException"
                    ELSE LET caller == stack[Len(stack) - 1]
                         IN  /\ stack' =
                                  IF caller.left > 1
                                  THEN Append(SubSeq(stack, 1, Len(stack) - 2),
                                              [caller EXCEPT !.pc = "attempt",
                                                             !.left = @ - 1])
                                  ELSE SubSeq(stack, 1, Len(stack) - 2)
                             /\ UNCHANGED navigated
  /\ UNCHANGED <<enable_rotation, rotation_interval, request_counter,
                 navigates, ip_rotations>>
  /\ UNCHANGED <<managerVars, sessionVars, directVars>>

LegacyNext ==
  \/ LegacyNavigate
  \/ ip_counter
  \/ rotate_ip
  \/ rotate_ip_navigate_back
  \/ driver_get

LegacySpec == LegacyInit /\ [][LegacyNext]_vars

-----------------------------------------------------------------------------
(***************************************************************************)
(* Properties of check_all_proxies_threaded and check_proxy.               *)
(***************************************************************************)
\* check_all_proxies_threaded has returned in the running or last call.
CheckAllReturned ==
  /\ Len(oplog) >= 2 /\ oplog[2] = "check_all"
  /\ \/ pc = "collect" /\ processed = 1..N
     \/ pc \in {"save_raw", "idle"}

\* C1: check_all runs check_proxy exactly once on each list element: at no
\* time has an element been checked twice, an index outside the list is
\* never checked, and when check_all has returned every element has been
\* checked once.
C1_EachCheckedOnce ==
  /\ \A i \in Slots : checks[i] <= 1
  /\ \A i \in Slots : i > N => checks[i] = 0
  /\ CheckAllReturned => \A i \in 1..N : checks[i] = 1

C1_Witness ==
  /\ CheckAllReturned
  /\ N >= 2
  /\ max_workers >= 2
  /\ \A i \in 1..N : checks[i] = 1

\* C2: after check_all has returned on N candidates the list has N records
\* and each has a checked_at, whatever checks raised.
C2_AllStamped ==
  CheckAllReturned =>
    /\ Len(proxy_list) = Len(fetched.value)
    /\ \A i \in 1..N : proxy_list[i].checked_at # NoneSeq

C4_FailureCaptured ==
  /\ \A i \in 1..N :
       raised[i] # None =>
         /\ proxy_list[i].valid = "False"
         /\ proxy_list[i].error = raised[i]
         /\ futures[i].state = "finished"
         /\ futures[i].exception = None
  /\ pc \in {"submit", "collect"} =>
       ENABLED (\/ Submit
                \/ \E w \in Threads :
                     WorkerTake(w) \/ WorkerConstruct(w) \/ WorkerNavigate(w)
                \/ \E i \in Slots : Collect(i)
                \/ SaveValid)
  /\ (CheckAllReturned /\ \E i \in 1..N : raised[i] # None) =>
       \A j \in 1..N : checks[j] = 1 /\ futures[j].state = "finished"

C4_Witness ==
  /\ CheckAllReturned
  /\ pc = "idle"
  /\ N >= 2
  /\ \E i, j \in 1..N :
       /\ raised[i] # None
       /\ raised[j] = None
       /\ proxy_list[j].valid = "True"

-----------------------------------------------------------------------------
(***************************************************************************)
(* Properties of get_proxy_list.                                           *)
(***************************************************************************)
\* The newest validated snapshot exists and is at most max_age_hours old.
NewestIsFresh(max_age_hours) ==
  \E d \in Days :
    /\ files[d].mtime >= 0
    /\ \A e \in Days : files[e].mtime <= files[d].mtime
    /\ (now - files[d].mtime) * HoursPerTick <= max_age_hours

NewestContent ==
  LET newest == CHOOSE d \in Days :
                  \A e \in Days : files[e].mtime <= files[d].mtime
  IN  json_load(files[newest].content).value

\* C5: a call of get_proxy_list with force_refresh false, made while the
\* newest cache file is fresh, returns at once with the content of that
\* file: no registry request, no check, no write to either directory.
C5_FreshCacheServed ==
  [][(/\ calls' = calls + 1
      /\ ~call'.force_refresh
      /\ NewestIsFresh(call'.max_cache_age_hours))
     => (/\ ret' = [kind |-> "list", value |-> NewestContent]
         /\ pc' = "idle"
         /\ oplog' = <<"load">>
         /\ UNCHANGED <<files, raw_files, http, fetched, proxy_list, poolVars>>)
    ]_vars

C5_Witness ==
  /\ pc = "idle"
  /\ calls = 1
  /\ ~call.force_refresh
  /\ oplog = <<"load">>
  /\ ret.value # <<>>
  /\ (now - files[DayOf(0)].mtime) * HoursPerTick = call.max_cache_age_hours

RefreshOps == <<"fetch", "check_all", "save", "save_raw">>

\* get_proxy_list has returned by the refresh path.
RefreshReturned ==
  /\ pc = "idle"
  /\ calls > 0
  /\ ret.kind # "none"
  /\ oplog # <<"load">>

\* The value returned holds exactly the candidates whose valid is true.
ReturnsTheValid ==
  /\ \A i \in 1..N :
       proxy_list[i].valid = "True"
         <=> \E j \in DOMAIN ret.value : ret.value[j] = proxy_list[i]
  /\ \A j \in DOMAIN ret.value :
       \E i \in 1..N : ret.value[j] = proxy_list[i]
  /\ Len(ret.value) = Cardinality({i \in 1..N : proxy_list[i].valid = "True"})

\* The newest file of each directory holds what the refresh saved there.
SavedBoth ==
  /\ \E d \in Days :
       /\ files[d].mtime >= 0
       /\ \A e \in Days : files[e].mtime <= files[d].mtime
       /\ files[d].content = json_dump(ret.value)
       /\ raw_files[d].mtime = files[d].mtime
       /\ raw_files[d].content = json_dump(proxy_list)

\* C6 as stated: every return of the refresh path has performed fetch,
\* check_all, the save of the valid subset and the save of all candidates,
\* in this order, and returns exactly the valid candidates.
C6_RefreshAlwaysSaves ==
  RefreshReturned => oplog = RefreshOps /\ ReturnsTheValid

\* C6 as amended: the operations of a refresh happen in the order fetch,
\* check_all, save, save of all candidates; a refresh whose fetch gave at
\* least one candidate performs all four on all candidates, leaves the valid
\* subset and the full list in the two directories, and returns exactly the
\* candidates whose valid is true.
C6_RefreshOrder ==
  /\ oplog = <<"load">> \/ oplog = SubSeq(RefreshOps, 1, Len(oplog))
  /\ (RefreshReturned /\ fetched.value # <<>>) =>
       /\ oplog = RefreshOps
       /\ Len(proxy_list) = Len(fetched.value)
       /\ \A i \in 1..N : checks[i] = 1
       /\ ReturnsTheValid
       /\ SavedBoth

C6_Witness ==
  /\ RefreshReturned
  /\ oplog = RefreshOps
  /\ N >= 2
  /\ Len(ret.value) = 1

\* C7: a forced refresh in which no proxy is valid ends with the error
\* NoProxiesAvailable, never with a list.
C7_RaisesWhenNoneValid ==
  (/\ RefreshReturned
   /\ call.force_refresh
   /\ \A i \in 1..N : proxy_list[i].valid # "True")
  => ret.kind = "NoProxiesAvailable"

\* C8: when the registry request fails, fetch_proxy_list ends with the error
\* SourceUnavailable, and with an empty list only when the body held no
\* record.
C8_SourceUnavailable ==
  /\ (http # NoResponse /\ ~http.ok) => fetched.kind = "SourceUnavailable"
  /\ (http.ok /\ fetched.value = <<>>) => fetched.kind = "list"

-----------------------------------------------------------------------------
(***************************************************************************)
(* Properties of the rotating session.                                     *)
(***************************************************************************)
Rotating == get_page = "go_get_json_rotation"

\* C9: under fixed(n) none of the first n fetches rotates and each of them
\* that is served goes through the proxy chosen in __init__; fetch n + 1
\* rotates.
C9_FirstFetchesThroughFirstProxy ==
  (Rotating /\ config.random_type = "fixed" /\ fetches >= 1) =>
    /\ fetches <= config.interval[1] =>
         /\ ~fetch.rotated
         /\ fetch.counter = <<config.interval[1] - fetches + 1>>
         /\ fetch.served # 0 => Through(fetch.served, first_proxy)
    /\ fetches = config.interval[1] + 1 => fetch.rotated

\* The schedule of C9 alone: no rotation in the first n fetches, a rotation
\* in fetch n + 1.
C9_Schedule ==
  (Rotating /\ config.random_type = "fixed" /\ fetches >= 1) =>
    /\ fetches <= config.interval[1] =>
         /\ ~fetch.rotated
         /\ fetch.counter = <<config.interval[1] - fetches + 1>>
         /\ rotations = {}
    /\ fetches = config.interval[1] + 1 =>
         fetch.rotated /\ rotations = {fetches}

C11_DecrementOnly ==
  [][/\ (Rotating /\ fetches' = fetches + 1 /\ rotation_counter[1] > 0) =>
          /\ rotation_counter' = <<rotation_counter[1] - 1>>
          /\ s_pc' = "navigate"
          /\ ~fetch'.rotated
          /\ UNCHANGED <<set_proxy, drivers, driver>>
     /\ (Rotating /\ s_pc = "navigate" /\ ~fetch.rotated) =>
          UNCHANGED <<rotation_counter, set_proxy, drivers, driver>>
    ]_vars

C11_Witness ==
  /\ Rotating
  /\ s_pc = "ready"
  /\ fetch.done /\ ~fetch.rotated /\ fetch.served = 1
  /\ fetch.counter = <<2>>
  /\ rotation_counter = <<1>>
  /\ set_proxy = first_proxy
  /\ Len(drivers) = 1

InList == \E i \in DOMAIN s_proxy_list : set_proxy = s_proxy_list[i]

C14_CloseIdempotent ==
  /\ [](s_pc = "ready" /\ closes < MaxCloses => ENABLED SessionClose)
  /\ [][closes' = closes + 1 =>
          /\ driver # 0 => drivers'[driver].status = "quit"
          /\ Len(drivers') = Len(drivers)
          /\ \A d \in DOMAIN drivers :
               /\ drivers'[d].arguments = drivers[d].arguments
               /\ d # driver => drivers'[d] = drivers[d]
          /\ (driver # 0 /\ drivers[driver].status = "quit") =>
               drivers' = drivers
          /\ UNCHANGED <<driver, s_pc, set_proxy, rotation_counter, get_page,
                         fetches, fetch>>
       ]_vars

C14_Witness ==
  /\ closes = 2
  /\ Rotating
  /\ fetches >= 1
  /\ rotation_counter[1] >= 1
  /\ driver # 0
  /\ drivers[driver].status = "quit"

\* C15: when close has returned the session's driver attribute is None; a
\* constructed session that has not been closed has a driver.
C15_DriverNoneAfterClose ==
  /\ closes >= 1 => driver = 0
  /\ (s_pc = "ready" /\ closes = 0) => driver # 0

-----------------------------------------------------------------------------
(***************************************************************************)
(* Properties of ManagerWebdriver.__init__ and of check_proxy.             *)
(***************************************************************************)
\* C16: the step in which ManagerWebdriver.__init__ fails on the probe
\* enters no get_proxy_list, makes no registry request, starts no check and
\* leaves both snapshot directories alone; a construction that failed on the
\* probe never made a call of get_proxy_list, and never becomes ready.
C16_ProbeGatesManager ==
  /\ [](mgr = "ConnectionError" => call.caller # "manager")
  /\ [][/\ (mgr # "ConnectionError" /\ mgr' = "ConnectionError") =>
            UNCHANGED <<pc, call, calls, oplog, ret, files, raw_files, http,
                        fetched, proxy_list, poolVars>>
        /\ mgr = "ConnectionError" => mgr' = "ConnectionError"
       ]_vars

C16_Witness ==
  /\ mgr = "ConnectionError"
  /\ calls = 0
  /\ now >= 1
  /\ json_files(files) # {}
  /\ http = NoResponse
  /\ oplog = <<>>

\* The response of the check of record i held a tournament object.
Accepted(i) == pages[i].kind = "dict" /\ pages[i].tournament

\* The response of the check of record i was well-formed but blocked.
Blocked(i) == pages[i].kind = "dict" /\ pages[i].error /\ ~pages[i].tournament

C18_RaiseReturnsFalse ==
  \A i \in 1..N :
    raised[i] # None =>
      /\ futures[i] =
           [state |-> "finished", result |-> FALSE, exception |-> None]
      /\ proxy_list[i].valid = "False"
      /\ proxy_list[i].error = raised[i]
      /\ pages[i] = NoPage

C18_Witness ==
  /\ N >= 2
  /\ raised[1] = "NavigationError"
  /\ raised[2] = "SessionConstructionError"
  /\ proxy_list[1].checked_at = <<0>>
  /\ proxy_list[1].valid = "False"
  /\ proxy_list[2].valid = "False"
  /\ processed = 1..N

-----------------------------------------------------------------------------
Newest ==
  CHOOSE d \in Days :
    files[d].mtime >= 0 /\ \A e \in Days : files[e].mtime <= files[d].mtime

\* C20: is_cache_fresh gives (false, none) when there is no snapshot, and
\* otherwise the newest snapshot together with whether its age, now minus
\* its modification time in hours, is at most max_age_hours; right after a
\* save is_cache_fresh(24) gives (true, the file saved).
C20_FreshIffYoung ==
  /\ \A max_age_hours \in MaxAges :
       LET r == is_cache_fresh(files, now, max_age_hours)
       IN  IF \A d \in Days : files[d].mtime < 0
           THEN r = <<FALSE, -1>>
           ELSE /\ r[2] = Newest
                /\ r[1] <=> (now - files[Newest].mtime) * HoursPerTick
                               <= max_age_hours
  /\ pc = "save_raw" =>
       is_cache_fresh(files, now, DefaultMaxAge) = <<TRUE, DayOf(now)>>

C20_Witness ==
  /\ calls = 1
  /\ ~call.force_refresh
  /\ call.max_cache_age_hours = DefaultMaxAge
  /\ pc = "fetch"
  /\ (now - files[0].mtime) * HoursPerTick > DefaultMaxAge
  /\ is_cache_fresh(files, now, DefaultMaxAge) = <<FALSE, 0>>

-----------------------------------------------------------------------------
(***************************************************************************)
(* Properties of the snapshot cache.                                       *)
(***************************************************************************)
\* The calls (by number) that saved into data/proxies.
DefaultSaves ==
  {k \in DOMAIN saved : ~saved[k].call.unfiltered /\ ~saved[k].call.custom_dir}

LastDefaultSave == CHOOSE k \in DefaultSaves : \A j \in DefaultSaves : j <= k

\* load_latest_proxy_list has returned and no save was made since.
LoadedLast == loaded.kind = "list" /\ loaded.after = Len(saved)

\* C21: once a list has been saved into data/proxies, load_latest_proxy_list
\* returns the list of the most recent such save, equal in every field of
\* every record, whatever was saved before it, on the same day or earlier,
\* and whatever was saved under raw/ or elsewhere.
C21_SaveLoadRoundTrip ==
  (LoadedLast /\ DefaultSaves # {}) =>
     loaded.value = saved[LastDefaultSave].call.proxy_list

\* Two saves of different lists into data/proxies on one day, then a load.
C21_Witness ==
  /\ LoadedLast
  /\ \E j, k \in DefaultSaves :
       /\ j < k
       /\ k = LastDefaultSave
       /\ DayOf(saved[j].at) = DayOf(saved[k].at)
       /\ saved[j].call.proxy_list # saved[k].call.proxy_list
       /\ Len(saved[k].call.proxy_list) > 0
       /\ loaded.value = saved[k].call.proxy_list
       /\ Cardinality(json_files(files)) = 1

\* The lists whose text a file holds: none when the text is incomplete.
ListsWritten(d) ==
  {c.proxy_list : c \in {x \in SaveCalls : files[d].content = json_dump(x.proxy_list)}}

\* C22: load_latest_proxy_list returns a list in every case: the empty list
\* when data/proxies holds no snapshot, the empty list when the snapshot of
\* greatest modification time cannot be read, and otherwise the list that
\* snapshot holds.
C22_LoadsNewestOrEmpty ==
  LoadedLast =>
    IF \A d \in Days : files[d].mtime < 0 THEN loaded.value = <<>>
    ELSE \E d \in Days :
           /\ files[d].mtime >= 0
           /\ \A e \in Days : files[e].mtime <= files[d].mtime
           /\ IF ListsWritten(d) = {} THEN loaded.value = <<>>
              ELSE loaded.value \in ListsWritten(d)

\* A load with two snapshots of different content in the directory.
C22_Witness ==
  /\ LoadedLast
  /\ \E d, e \in Days :
       /\ files[e].mtime >= 0
       /\ files[d].mtime > files[e].mtime
       /\ \A x \in Days : files[x].mtime <= files[d].mtime
       /\ ListsWritten(d) # {}
       /\ ListsWritten(e) # {}
       /\ ListsWritten(d) # ListsWritten(e)
       /\ loaded.value \in ListsWritten(d)

\* C23 as stated: no step changes a snapshot file that exists, in
\* data/proxies or in data/proxies/raw.
C23_SnapshotImmutable ==
  [][\A d \in Days :
       /\ files[d].mtime >= 0 => files'[d] = files[d]
       /\ raw_files[d].mtime >= 0 => raw_files'[d] = raw_files[d]
    ]_vars

\* C23 as amended: a snapshot file is changed only by a save of the same
\* day, which replaces its content by the list then saved; a refresh on a
\* later day writes the file of that day and leaves the earlier files as
\* they are.
C23_SnapshotKeptUntilSameDaySave ==
  [][\A d \in Days :
       /\ (files[d].mtime >= 0 /\ files'[d] # files[d]) =>
            /\ now \div TicksPerDay = d
            /\ files'[d] = [mtime |-> now,
                            content |-> json_dump(ValidOnes(proxy_list))]
       /\ (raw_files[d].mtime >= 0 /\ raw_files'[d] # raw_files[d]) =>
            /\ now \div TicksPerDay = d
            /\ raw_files'[d] = [mtime |-> now,
                                content |-> json_dump(proxy_list)]
       /\ (files' # files /\ now \div TicksPerDay # d) =>
            /\ files'[d] = files[d]
            /\ files'[now \div TicksPerDay].mtime > files[d].mtime
    ]_vars

\* A refresh on the day after an earlier run's refresh has saved both of its
\* lists: the files of the earlier run are as that run wrote them.
C23_Witness ==
  /\ pc = "idle"
  /\ oplog = RefreshOps
  /\ \E cache \in PriorCaches :
       /\ files[0] = cache.files[0]
       /\ raw_files[0] = cache.raw_files[0]
  /\ files[1].mtime >= TicksPerDay
  /\ raw_files[1].mtime >= TicksPerDay
  /\ files[1].content # files[0].content

-----------------------------------------------------------------------------
(***************************************************************************)
(* Properties of the parsing of the registry.                              *)
(***************************************************************************)
\* What a line of the response is, by its place in the text.
IsLine(l, n, shape) == http.lines[l] = DataLine(n, shape)

\* The lines that carry too few fields, and the lines parsing keeps.
TooShort == {l \in DOMAIN http.lines :
               \E n \in 1..(MinParts - 1), shape \in Shapes : IsLine(l, n, shape)}
TooLong  == {l \in DOMAIN http.lines :
               \E n \in FieldCounts, shape \in Shapes :
                 n >= MaxParts /\ IsLine(l, n, shape)}
WithFields == {l \in DOMAIN http.lines :
                 \E n \in FieldCounts, shape \in Shapes : IsLine(l, n, shape)}

\* The record of the response's line l is in the list returned.
Yields(l) ==
  \E n \in FieldCounts, shape \in Shapes :
    /\ IsLine(l, n, shape)
    /\ \E j \in DOMAIN fetched.value :
         fetched.value[j].socks5 = "10.124.0." \o ToString(n)

\* C24: fetch_proxy_list ends with a list; a data line of fewer than 4
\* fields leaves no record in it, and the list has as many records as the
\* text has data lines less the lines parsing skipped.
C24_ShortLinesSkipped ==
  (fetched.kind # "none" /\ http.ok) =>
    /\ fetched.kind = "list"
    /\ \A l \in TooShort : ~Yields(l)
    /\ Len(fetched.value) =
         Cardinality(WithFields) - Cardinality(TooShort \cup TooLong)

\* A text with a line of 2 fields, a line of 3 and a line of more: one
\* record.
C24_Witness ==
  /\ fetched.kind = "list"
  /\ \E l, m \in DOMAIN http.lines :
       /\ IsLine(l, MinParts - 2, "plain")
       /\ IsLine(m, MinParts - 1, "spaced")
  /\ Cardinality(WithFields) = 3
  /\ Len(fetched.value) = 1

\* The record a line of n fields is to give.
Expected(n, shape) ==
  [country |-> IF shape = "plain" THEN "Austria" ELSE "United_States",
   city |-> IF shape = "plain" THEN "Vienna" ELSE "Salt_Lake_UT",
   socks5 |-> "10.124.0." \o ToString(n),
   hostname |-> IF n = 4 THEN "10.124.0." \o ToString(n)
                ELSE "host-" \o ToString(n),
   proxy_url |-> "socks5://10.124.0." \o ToString(n) \o ":1080",
   valid |-> Absent, checked_at |-> NoneSeq, error_code |-> Absent,
   error_reason |-> Absent, error |-> Absent]

\* One expected record for every line of lines that has at least MinParts
\* and fewer than limit fields, in the order of the lines.
RECURSIVE ExpectedRecords(_, _)
ExpectedRecords(lines, limit) ==
  IF lines = <<>> THEN <<>>
  ELSE LET here == {c \in FieldCounts \X Shapes :
                      /\ Head(lines) = DataLine(c[1], c[2])
                      /\ c[1] >= MinParts
                      /\ c[1] < limit}
       IN  (IF here = {} THEN <<>>
            ELSE LET c == CHOOSE x \in here : TRUE
                 IN  <<Expected(c[1], c[2])>>)
             \o ExpectedRecords(Tail(lines), limit)

\* C25 as stated: every data line of 4 or more fields, however many, gives
\* exactly one record, with country, city, relay address, hostname (the
\* last field) and proxy_url socks5://{relay address}:1080.
C25_EveryLineOfFourOrMore ==
  (fetched.kind # "none" /\ http.ok) =>
    fetched.value = ExpectedRecords(http.lines, MaxFieldCount + 2)

\* C25 as amended: every data line of at least 4 and fewer than 20 fields
\* gives exactly one such record; a line of 20 or more fields gives none.
C25_EveryLineOfFourToNineteen ==
  (fetched.kind # "none" /\ http.ok) =>
    fetched.value = ExpectedRecords(http.lines, MaxParts)

\* A text with a line of seven fields and a line of nineteen: the records
\* of both, the hostname of each its last field.
C25_Witness ==
  /\ fetched.kind = "list"
  /\ http.ok
  /\ \E l, m \in DOMAIN http.lines :
       /\ l < m
       /\ IsLine(l, MinParts + 3, "spaced")
       /\ IsLine(m, MaxParts - 1, "plain")
  /\ Len(fetched.value) = 2
  /\ fetched.value[1].hostname = "host-" \o ToString(MinParts + 3)
  /\ fetched.value[1].city = "Salt_Lake_UT"
  /\ fetched.value[2].hostname = "host-" \o ToString(MaxParts - 1)
  /\ fetched.value[2].proxy_url =
       "socks5://10.124.0." \o ToString(MaxParts - 1) \o ":1080"

\* The text of one header line, one line of two fields and one well-formed
\* line.
ExampleText ==
  <<HeaderLines[1], DataLine(MinParts - 2, "plain"),
    DataLine(MinParts + 3, "spaced")>>

HeaderLinesIn == {l \in DOMAIN http.lines :
                    \E h \in DOMAIN HeaderLines : http.lines[l] = HeaderLines[h]}

\* C26: the list returned has one record for each well-formed data line of
\* the text and none for a header line, an empty line or a malformed line;
\* the text of one header line, one line of two fields and one well-formed
\* line gives exactly the record of that line.
C26_OneRecordPerGoodLine ==
  (fetched.kind # "none" /\ http.ok) =>
    /\ Len(fetched.value) =
         Len(http.lines) - Cardinality(HeaderLinesIn)
           - Cardinality({l \in DOMAIN http.lines : strip(http.lines[l]) = <<>>})
           - Cardinality(TooShort \cup TooLong)
    /\ \A j \in DOMAIN fetched.value :
         \E l \in WithFields \ (TooShort \cup TooLong) :
           \E n \in FieldCounts :
             /\ \E shape \in Shapes : IsLine(l, n, shape)
             /\ fetched.value[j].socks5 = "10.124.0." \o ToString(n)
    /\ http.lines = ExampleText =>
         /\ Len(fetched.value) = 1
         /\ fetched.value[1].hostname = "host-" \o ToString(MinParts + 3)

C26_Witness ==
  /\ fetched.kind = "list"
  /\ http.lines = ExampleText
  /\ Len(fetched.value) = 1

-----------------------------------------------------------------------------
(***************************************************************************)
(* Properties of the thread pool of check_all_proxies_threaded.            *)
(***************************************************************************)
\* The pool threads that are inside check_proxy for record i.
Running(i) == {w \in Threads : workers[w].pc # "idle" /\ workers[w].task = i}

\* C27: at no time are two pool threads inside the check of one record;
\* a record changes only in a step of the one thread that runs its check,
\* or, once its future has finished and no thread runs its check, in the
\* dispatching thread's turn for that future.
C27_OneWriterPerRecord ==
  /\ [](\A i \in 1..N : Cardinality(Running(i)) <= 1)
  /\ [][\A i \in 1..N :
          proxy_list'[i] # proxy_list[i] =>
            \/ /\ Cardinality(Running(i)) = 1
               /\ futures[i].state = "running"
               /\ \E w \in Running(i) :
                    \A v \in Threads \ {w} : workers'[v] = workers[v]
               /\ processed' = processed
            \/ /\ Running(i) = {}
               /\ futures[i].state = "finished"
               /\ processed' = processed \cup {i}
               /\ workers' = workers
       ]_vars

\* Two checks run at once, each on its own record, while the dispatching
\* thread waits in as_completed.
C27_Witness ==
  /\ \E v, w \in Threads :
       /\ v # w
       /\ workers[v].pc = "navigate"
       /\ workers[w].pc = "navigate"
       /\ workers[v].task # workers[w].task
  /\ pc = "collect"

\* C28: with two or more pool threads, while the navigation of one record
\* never returns, the check of every other record is started and finishes,
\* and its future is collected.
C28_HangHoldsOneThread ==
  \A i \in Slots :
    [](max_workers >= 2 /\ i <= N /\ i # HungTask =>
         <>(futures[i].state = "finished" /\ i \in processed))

\* The navigation of the first record has not returned and every other
\* check has finished and been collected.
C28_Witness ==
  /\ max_workers >= 2
  /\ N >= 2
  /\ futures[HungTask].state = "running"
  /\ \E w \in Threads :
       workers[w].task = HungTask /\ workers[w].pc = "navigate"
  /\ \A i \in 1..N :
       i # HungTask => futures[i].state = "finished" /\ i \in processed

\* check_all_proxies_threaded has come to the end of its as_completed loop
\* and the pool has no work left.
Terminated ==
  /\ pc = "collect"
  /\ processed = 1..N
  /\ work_queue = <<>>
  /\ \A w \in Threads : workers[w].pc = "idle"

\* C29: when every check returns, check_all_proxies_threaded comes to its
\* end for every list and every number of pool threads, and at its end
\* every candidate has been checked once, has a finished future and has
\* been collected.
C29_CheckAllTerminates ==
  /\ <>[]Terminated
  /\ [](Terminated =>
          /\ Cardinality({i \in Slots : futures[i].state = "finished"}) = N
          /\ Cardinality(processed) = N
          /\ \A i \in 1..N : checks[i] = 1)

\* The end of a run of one pool thread on the longest list.
C29_Witness ==
  /\ Terminated
  /\ max_workers = 1
  /\ N = MaxProxies
  /\ \A i \in 1..N : futures[i].state = "finished" /\ checks[i] = 1

-----------------------------------------------------------------------------
(***************************************************************************)
(* Properties of the records.                                              *)
(***************************************************************************)
UrlOfRelay(r) == r.proxy_url = "socks5://" \o r.socks5 \o ":1080"

AllUrlsOfRelay(list) == \A k \in DOMAIN list : UrlOfRelay(list[k])

\* What fetch gives a record and validation is to leave alone.
Identity(r) == <<r.country, r.city, r.socks5, r.hostname, r.proxy_url>>

\* C30: the records fetched, the records under validation, the records
\* returned by get_proxy_list and the records read back from every snapshot
\* of data/proxies and data/proxies/raw have proxy_url equal to
\* socks5://{relay address}:1080; from the fetch on, no step of the
\* validation changes country, city, relay address, hostname or proxy_url
\* of a record.
C30_UrlFromRelayAddress ==
  /\ [](/\ AllUrlsOfRelay(proxy_list)
        /\ AllUrlsOfRelay(fetched.value)
        /\ AllUrlsOfRelay(ret.value)
        /\ \A d \in Days :
             /\ files[d].mtime >= 0 =>
                  AllUrlsOfRelay(load_proxy_list_from_file(files, d))
             /\ raw_files[d].mtime >= 0 =>
                  AllUrlsOfRelay(load_proxy_list_from_file(raw_files, d)))
  /\ [][(pc = "submit" \/ pc = "collect") =>
          /\ Len(proxy_list') = Len(proxy_list)
          /\ \A i \in 1..N :
               Identity(proxy_list'[i]) = Identity(proxy_list[i])
       ]_vars

\* A refresh has returned: a record was fetched, found valid, saved and
\* returned, and reads back from both snapshots with its proxy_url.
C30_Witness ==
  /\ pc = "idle"
  /\ oplog = RefreshOps
  /\ Len(ret.value) = 1
  /\ N = MaxProxies
  /\ ret.value[1].valid = "True"
  /\ ret.value[1].checked_at # NoneSeq
  /\ UrlOfRelay(ret.value[1])
  /\ load_proxy_list_from_file(files, DayOf(now)) = ret.value
  /\ load_proxy_list_from_file(raw_files, DayOf(now)) = proxy_list
  /\ \E i \in 1..N : proxy_list[i].error # Absent

-----------------------------------------------------------------------------
(***************************************************************************)
(* Further properties of fetch_proxy_list.                                 *)
(***************************************************************************)
\* C31: the list fetch_proxy_list returns holds no two records of one
\* hostname, whatever the text of the registry.
C31_HostnamesUnique ==
  \A j, k \in DOMAIN fetched.value :
    fetched.value[j].hostname = fetched.value[k].hostname => j = k

-----------------------------------------------------------------------------
(***************************************************************************)
(* The draw of a rotation.                                                 *)
(***************************************************************************)
\* A rotating session stands before a fetch that rotates.
RotationDue ==
  /\ s_pc = "ready"
  /\ get_page = "go_get_json_rotation"
  /\ fetches < MaxFetches
  /\ rotation_counter[1] <= 0

-----------------------------------------------------------------------------
(***************************************************************************)
(* fetch_and_process_proxies without the testing.                          *)
(***************************************************************************)
\* The direct call of fetch_and_process_proxies has ended.
SkipEnded == call.skip_testing /\ calls = 1 /\ pc = "idle"

\* C33: fetch_and_process_proxies(skip_testing = true) that fetched at least
\* one record has run no check and ends with a list of records, not with an
\* exception.
C33_SkipTestingReturnsList ==
  (SkipEnded /\ fetched.value # <<>>)
    => /\ \A i \in Slots : checks[i] = 0
       /\ ret.kind = "list"
       /\ ret.value # <<>>

-----------------------------------------------------------------------------
(***************************************************************************)
(* A refresh whose fetch gives no candidate.                               *)
(***************************************************************************)
\* The directories are as they were before the call: empty, or as the
\* earlier run left them.
CacheAsBefore ==
  \/ files = EmptyDir /\ raw_files = EmptyDir
  \/ \E cache \in PriorCaches :
       files = cache.files /\ raw_files = cache.raw_files

\* C34: when the fetch of a refresh gives no candidate, by an empty body or
\* by a failed request, get_proxy_list has returned the empty list at once:
\* no check was submitted or run, no Chrome launched, and the validated and
\* the raw snapshots are the files that were there before the call.
C34_EmptyFetchWritesNothing ==
  (calls > 0 /\ fetched.kind = "list" /\ fetched.value = <<>>)
    => /\ pc = "idle"
       /\ ret = [kind |-> "list", value |-> <<>>]
       /\ oplog = <<"fetch">>
       /\ submitted = 0
       /\ \A i \in Slots : checks[i] = 0 /\ chrome[i] = "none"
       /\ CacheAsBefore

\* A refresh over the snapshots of an earlier run whose request failed.
C34_Witness ==
  /\ pc = "idle"
  /\ calls = 1
  /\ oplog = <<"fetch">>
  /\ ~http.ok
  /\ fetched.value = <<>>
  /\ ret.value = <<>>
  /\ json_load(files[0].content).value # <<>>
  /\ raw_files[0].mtime >= 0

-----------------------------------------------------------------------------
-----------------------------------------------------------------------------
-----------------------------------------------------------------------------
(***************************************************************************)
(* A rotation whose rebuild fails.                                         *)
(***************************************************************************)
\* The session has no driver that is open.
NoLiveDriver == driver = 0 \/ drivers[driver].status # "open"

\* The order of a rotating fetch: the step that rotates resets the counter
\* and draws the proxy and touches no driver; the close of the old driver and
\* the rebuild leave the counter and the proxy as that step set them.  A
\* fetch that finds the counter above 0 goes to its navigation and touches
\* no driver, and a rebuild runs in a fetch that found the counter at 0 or
\* below only.
RotationOrder ==
  /\ (Rotating /\ s_pc = "ready" /\ s_pc' = "close_old") =>
       /\ rotation_counter'[1] \in config.interval[1]..config.interval[2]
       /\ InList'
       /\ UNCHANGED <<drivers, driver>>
  /\ (s_pc = "close_old" \/ s_pc = "rebuild") =>
       UNCHANGED <<set_proxy, rotation_counter>>
  /\ (Rotating /\ fetches' = fetches + 1 /\ rotation_counter[1] > 0) =>
       /\ s_pc' = "navigate"
       /\ UNCHANGED <<set_proxy, drivers, driver>>
  /\ (s_pc = "close_old" \/ s_pc = "rebuild") => fetch.counter[1] <= 0

-----------------------------------------------------------------------------
(***************************************************************************)
(* A refresh that finds no candidate valid.                                *)
(***************************************************************************)
\* The newest validated snapshot holds the empty array.
NewestIsEmptyArray ==
  \E d \in Days :
    /\ files[d].mtime >= 0
    /\ \A e \in Days : files[e].mtime <= files[d].mtime
    /\ files[d].content = json_dump(<<>>)

\* C38: a refresh that checked a list of at least one candidate and found
\* none valid has written the validated snapshot of the day, holding the
\* empty array, and has returned the empty list; and a call with
\* force_refresh false made while the newest validated snapshot holds the
\* empty array and is at most max_cache_age_hours old returns the empty list
\* at once, with no request to the registry, no check and no write.
C38_EmptyValidatedSnapshotServed ==
  /\ []((/\ RefreshReturned
         /\ oplog = RefreshOps
         /\ N >= 1
         /\ \A i \in 1..N : proxy_list[i].valid # "True")
        => /\ ret = [kind |-> "list", value |-> <<>>]
           /\ files[DayOf(now)] = [mtime |-> now, content |-> json_dump(<<>>)]
           /\ json_load(raw_files[DayOf(now)].content).value = proxy_list
           /\ NewestIsEmptyArray)
  /\ [][(/\ calls' = calls + 1
         /\ ~call'.force_refresh
         /\ NewestIsFresh(call'.max_cache_age_hours)
         /\ NewestIsEmptyArray)
        => (/\ ret' = [kind |-> "list", value |-> <<>>]
            /\ pc' = "idle"
            /\ oplog' = <<"load">>
            /\ UNCHANGED <<files, raw_files, http, fetched, proxy_list,
                           poolVars>>)
       ]_vars

\* A call without force_refresh, half a day after the refresh of an earlier
\* run found its one candidate failing, was served the empty list from the
\* snapshot.
C38_Witness ==
  /\ pc = "idle"
  /\ calls = 1
  /\ ~call.force_refresh
  /\ oplog = <<"load">>
  /\ ret = [kind |-> "list", value |-> <<>>]
  /\ now = 1
  /\ files[0] = [mtime |-> 0, content |-> json_dump(<<>>)]
  /\ Len(json_load(raw_files[0].content).value) = 1
  /\ http = NoResponse

-----------------------------------------------------------------------------
(***************************************************************************)
(* The options builder the checks share.                                   *)
(***************************************************************************)
\* The proxy-server argument of a record.
ProxyServer(proxy) == "--proxy-server=" \o proxy.proxy_url

\* C39: add_proxy_and_build leaves the shared builder as it was constructed,
\* so in every interleaving of the checks the options a check built for its
\* proxy are the builder's arguments followed by the arguments of that
\* proxy: they hold its proxy-server argument and the proxy-server argument
\* of no other candidate of the list.
C39_OptionsOfOwnProxyOnly ==
  /\ builder = BaseArguments
  /\ \A w \in Threads :
       workers[w].pc = "navigate" =>
         LET i == workers[w].task
             options == workers[w].options
         IN  /\ options = add_proxy_and_build(BaseArguments, proxy_list[i]).arguments
             /\ \E a \in DOMAIN options : options[a] = ProxyServer(proxy_list[i])
             /\ \A j \in 1..N, a \in DOMAIN options :
                  j # i => options[a] # ProxyServer(proxy_list[j])

\* Two checks hold the options they built at the same time.
C39_Witness ==
  /\ workers[1].pc = "navigate"
  /\ workers[2].pc = "navigate"
  /\ workers[1].task # workers[2].task
  /\ workers[1].options # workers[2].options

-----------------------------------------------------------------------------
(***************************************************************************)
(* The legacy session: rotations within one call of navigate.              *)
(***************************************************************************)
\* C40: in the legacy session with rotation enabled and an interval of at
\* least 1, a call of navigate in which no rotation attempt and no
\* navigation has failed performs at most one rotation: the navigation back
\* that rotate_ip makes after a rotation starts no further rotation.
C40_AtMostOneRotation ==
  (enable_rotation /\ rotation_interval >= 1 /\ clean) => ip_rotations <= 1

====
